---- MODULE Spec2Model ----
(***************************************************************************)
(* Contractor CRM: the financial reconciliation core.                      *)
(*   - the ledger mutation handlers and the aggregator of the application  *)
(*     component (src/unnamed/part_000),                                   *)
(*   - the schema migrator and the local fallback store of the persistence *)
(*     gateway (src/src/lib/supabase.js).                                  *)
(* Monetary amounts are integers.  JavaScript values that may be null,     *)
(* undefined or NaN are records tagged with their type, so that the        *)
(* operators ||, ??, > and + are modelled with the language's coercions.   *)
(* An absent array reads as the empty sequence (every reader of the code   *)
(* uses `x || []` or `x?.reduce(...) || 0`).                               *)
(***************************************************************************)
EXTENDS Integers, Sequences, FiniteSets, TLC

VARIABLES
    projects,         \* React state `projects`: the in-memory project list
    selectedProject,  \* React state `selectedProject`: Null or Num(id)
    clock,            \* the value Date.now() returns
    isLoading,        \* React state `isLoading`
    last,             \* the handler that ran last, with its arguments
    storage,          \* localStorage item 'contractor-crm-data'
    aggIn,            \* aggregator under test: the function and its input
    aggOut,           \* aggregator under test: the value returned
    doc,              \* migrator under test: the document drawn
    data,             \* migrator under test: the object handed to migrateData
    returned,         \* migrator under test: what each call returned
    saved,            \* store under test: the project handed to saveProject
    loaded,           \* store under test: what getProjects returned
    pending           \* handlers that captured their closure and await the gateway

vars == <<projects, selectedProject, clock, isLoading, last, storage, aggIn, aggOut,
          doc, data, returned, saved, loaded, pending>>

appVars == <<projects, selectedProject, clock, isLoading, last>>
aggVars == <<aggIn, aggOut>>
migVars == <<doc, data, returned>>
storeVars == <<saved, loaded>>
asyncVars == <<pending>>

(***************************************************************************)
(* Bounds of the model.                                                    *)
(***************************************************************************)
MaxAmount == 5
MaxLen == 2
MaxDocCategories == 2
MaxDocPayments == 1
MaxClock == 2
MaxProjects == 2
MaxCategories == 2
MaxPayments == 1
MaxExpenses == 1

(***************************************************************************)
(* JavaScript values.                                                      *)
(***************************************************************************)
Num(n) == [t |-> "num", n |-> n, s |-> ""]
Str(s) == [t |-> "str", n |-> 0, s |-> s]
Null == [t |-> "null", n |-> 0, s |-> ""]
Undef == [t |-> "undefined", n |-> 0, s |-> ""]
NaN == [t |-> "NaN", n |-> 0, s |-> ""]

IsNum(v) == v.t = "num"

\* The numerals the model's text inputs can spell.
Digits == <<"0", "1", "2", "3", "4", "5", "6", "7", "8", "9">>
Numeral(n) == IF n < 0 THEN "-" \o Digits[1 - n] ELSE Digits[n + 1]
Numerals == [s \in {Numeral(n) : n \in -9..9} |->
               CHOOSE n \in -9..9 : Numeral(n) = s]

\* the text a number input shows for n
TextOf(n) == Str(Numeral(n))

\* parseFloat(v): a number is printed and read back; text is read as a
\* numeral; anything else (empty text, other text, null, undefined) is NaN.
parseFloat(v) ==
    CASE v.t = "num" -> v
      [] v.t = "str" /\ v.s \in DOMAIN Numerals -> Num(Numerals[v.s])
      [] OTHER -> NaN

\* ToNumber, the coercion of the relational and arithmetic operators.
ToNumber(v) ==
    CASE v.t = "num" -> v
      [] v.t = "null" -> Num(0)
      [] v.t = "str" /\ v.s = "" -> Num(0)
      [] v.t = "str" /\ v.s \in DOMAIN Numerals -> Num(Numerals[v.s])
      [] OTHER -> NaN

Truthy(v) ==
    CASE v.t = "num" -> v.n # 0
      [] v.t = "str" -> v.s # ""
      [] OTHER -> FALSE

\* a || b
Or(a, b) == IF Truthy(a) THEN a ELSE b

\* a ?? b
Coalesce(a, b) == IF a.t \in {"null", "undefined"} THEN b ELSE a

\* a > 0
GtZero(a) == LET x == ToNumber(a) IN IsNum(x) /\ x.n > 0

\* a + b and a - b on numbers (null counts 0, undefined and NaN give NaN)
Plus(a, b) ==
    LET x == ToNumber(a)
        y == ToNumber(b)
    IN IF IsNum(x) /\ IsNum(y) THEN Num(x.n + y.n) ELSE NaN

Minus(a, b) ==
    LET x == ToNumber(a)
        y == ToNumber(b)
    IN IF IsNum(x) /\ IsNum(y) THEN Num(x.n - y.n) ELSE NaN

\* array.filter(keep)
Filter(seq, keep(_)) == SelectSeq(seq, keep)

\* array.reduce((sum, x) => sum + term(x), 0)
ReduceSum(seq, term(_), init) ==
    LET acc[i \in 0..Len(seq)] ==
            IF i = 0 THEN init ELSE Plus(acc[i - 1], term(seq[i]))
    IN acc[Len(seq)]

\* array.find(test), undefined when there is none
Find(seq, test(_)) ==
    IF \E i \in DOMAIN seq : test(seq[i])
    THEN LET i == CHOOSE i \in DOMAIN seq :
                     test(seq[i]) /\ \A j \in 1..(i - 1) : ~test(seq[j])
         IN [found |-> TRUE, value |-> seq[i]]
    ELSE [found |-> FALSE]

\* array.map(f)
MapSeq(seq, f(_)) == [i \in DOMAIN seq |-> f(seq[i])]

SumOver(seq, n(_)) ==
    LET acc[i \in 0..Len(seq)] == IF i = 0 THEN 0 ELSE acc[i - 1] + n(seq[i])
    IN acc[Len(seq)]

SeqsUpTo(S, n) == UNION {[1..k -> S] : k \in 0..n}

(***************************************************************************)
(* Financial aggregator.                                                   *)
(***************************************************************************)
\* The low-buffer threshold is remainingToPay * 0.20.
WarningPercent == 20

getWarningLevelYellowFirst(buffer, remainingToPay) ==
    IF LET r == ToNumber(remainingToPay) IN IsNum(r) /\ r.n <= 0 THEN "green"
    ELSE LET b == ToNumber(buffer)
             r == ToNumber(remainingToPay)
         IN IF IsNum(b) /\ IsNum(r) /\ 100 * b.n <= WarningPercent * r.n
            THEN "yellow"
            ELSE IF IsNum(b) /\ b.n < 0 THEN "red" ELSE "green"

getWarningLevel(buffer, remainingToPay) ==
    LET b == ToNumber(buffer)
        r == ToNumber(remainingToPay)
    IN IF IsNum(r) /\ r.n <= 0 THEN "green"
       ELSE IF IsNum(b) /\ b.n < 0 THEN "red"
       ELSE IF IsNum(b) /\ IsNum(r) /\ 100 * b.n <= WarningPercent * r.n
            THEN "yellow"
       ELSE "green"

AllocAmountUnguarded(a) == a.amount

AllocAmount(a) == Or(a.amount, Num(0))
\* a labor sum that takes in the materials part of an allocation
AllocLaborWithMaterials(a) ==
    Plus(Or(a.laborAmount, Num(0)), Or(a.materialsAmount, Num(0)))

AllocLabor(a) == Or(a.laborAmount, Num(0))
AllocMaterials(a) == Or(a.materialsAmount, Num(0))
ExpenseAmount(e) == e.amount

IsLaborOrUntyped(e) == e.type # Str("materials")

IsLabor(e) == e.type = Str("labor")
IsMaterials(e) == e.type = Str("materials")

getCategoryTotalsSeparate(category) ==
    LET laborCollected ==
            Or(ReduceSum(category.allocations, AllocLabor, Num(0)), Num(0))
        materialsCollected ==
            Or(ReduceSum(category.allocations, AllocMaterials, Num(0)), Num(0))
        laborPaid ==
            Or(ReduceSum(Filter(category.expenses, IsLabor),
                         ExpenseAmount, Num(0)), Num(0))
        materialsPaid ==
            Or(ReduceSum(Filter(category.expenses, IsMaterials),
                         ExpenseAmount, Num(0)), Num(0))
        laborBudget == Or(category.laborBudget, Num(0))
        laborCost == Or(category.laborCost, Num(0))
        materialsBudget == Or(category.materialsBudget, Num(0))
        laborRemainingToCollect == Minus(laborBudget, laborCollected)
        laborRemainingToPay == Minus(laborCost, laborPaid)
        laborBuffer == Minus(laborRemainingToCollect, laborRemainingToPay)
        materialsRemainingToCollect == Minus(materialsBudget, materialsCollected)
        materialsRemainingToPay == Minus(materialsBudget, materialsPaid)
    IN [mode |-> "separate",
        laborCollected |-> laborCollected,
        laborPaid |-> laborPaid,
        laborRemainingToCollect |-> laborRemainingToCollect,
        laborRemainingToPay |-> laborRemainingToPay,
        laborBuffer |-> laborBuffer,
        laborWarningLevel |-> getWarningLevel(laborBuffer, laborRemainingToPay),
        laborProfit |-> Minus(laborBudget, laborCost),
        materialsCollected |-> materialsCollected,
        materialsPaid |-> materialsPaid,
        materialsRemainingToCollect |-> materialsRemainingToCollect,
        materialsRemainingToPay |-> materialsRemainingToPay,
        totalCollected |-> Plus(laborCollected, materialsCollected),
        totalPaid |-> Plus(laborPaid, materialsPaid),
        totalBudget |-> Plus(laborBudget, materialsBudget),
        totalCost |-> Plus(laborCost, materialsBudget),
        projectedProfit |-> Minus(laborBudget, laborCost),
        currentProfit |-> Minus(Plus(laborCollected, materialsCollected),
                                Plus(laborPaid, materialsPaid))]

getCategoryTotalsAllInclusive(category) ==
    LET budget == Coalesce(category.totalBudget,
                           Coalesce(category.clientBudget, Num(0)))
        cost == Coalesce(category.totalCost,
                         Coalesce(category.yourCost, Num(0)))
        collected ==
            Or(ReduceSum(category.allocations, AllocAmount, Num(0)), Num(0))
        paid == Or(ReduceSum(category.expenses, ExpenseAmount, Num(0)), Num(0))
        remainingToCollect == Minus(budget, collected)
        remainingToPay == Minus(cost, paid)
        buffer == Minus(remainingToCollect, remainingToPay)
    IN [mode |-> "all-inclusive",
        budget |-> budget,
        cost |-> cost,
        collected |-> collected,
        paid |-> paid,
        remainingToCollect |-> remainingToCollect,
        remainingToPay |-> remainingToPay,
        buffer |-> buffer,
        warningLevel |-> getWarningLevel(buffer, remainingToPay),
        projectedProfit |-> Minus(budget, cost),
        currentMargin |-> Minus(collected, paid),
        clientPaid |-> collected,
        youPaid |-> paid,
        remaining |-> remainingToCollect,
        yourRemaining |-> remainingToPay,
        profit |-> Minus(collected, paid),
        totalCollected |-> collected,
        totalPaid |-> paid,
        totalBudget |-> budget,
        totalCost |-> cost]

getCategoryTotals(category) ==
    LET mode == Or(category.mode, Str("all-inclusive"))
    IN IF mode = Str("separate")
       THEN getCategoryTotalsSeparate(category)
       ELSE getCategoryTotalsAllInclusive(category)

\* const currentProject = projects.find(p => p.id === selectedProject)
currentProject(projs, sel) ==
    LET IsSel(p) == Num(p.id) = sel IN Find(projs, IsSel)

\* if (warningLevel === 'red') redCount++; else if (warningLevel === 'yellow')
\* yellowCount++; else greenCount++
HealthBucketYellowAsGreen(warningLevel) ==
    IF warningLevel = "red" THEN "red" ELSE "green"

HealthBucket(warningLevel) ==
    IF warningLevel = "red" THEN "red"
    ELSE IF warningLevel = "yellow" THEN "yellow"
    ELSE "green"

\* The forEach loop of getProjectTotals over categories[i..], acc the running
\* totals and counts.
RECURSIVE ProjectTotalsLoop(_, _)
ProjectTotalsLoop(cats, acc) ==
    IF cats = <<>> THEN acc
    ELSE LET totals == getCategoryTotals(Head(cats))
             warningLevel == IF totals.mode = "separate"
                             THEN totals.laborWarningLevel
                             ELSE totals.warningLevel
             next ==
               [totalBudget |-> Plus(acc.totalBudget, Or(totals.totalBudget, Num(0))),
                totalCost |-> Plus(acc.totalCost, Or(totals.totalCost, Num(0))),
                totalPaid |-> Plus(acc.totalPaid, Or(totals.totalCollected, Num(0))),
                totalSpent |-> Plus(acc.totalSpent, Or(totals.totalPaid, Num(0))),
                green |-> IF HealthBucket(warningLevel) = "green"
                          THEN acc.green + 1 ELSE acc.green,
                yellow |-> IF HealthBucket(warningLevel) = "yellow"
                           THEN acc.yellow + 1 ELSE acc.yellow,
                red |-> IF HealthBucket(warningLevel) = "red"
                        THEN acc.red + 1 ELSE acc.red]
         IN ProjectTotalsLoop(Tail(cats), next)

ZeroTotals ==
    [totalBudget |-> Num(0), totalCost |-> Num(0), totalPaid |-> Num(0),
     totalSpent |-> Num(0), green |-> 0, yellow |-> 0, red |-> 0]

getProjectTotals(projs, sel) ==
    LET cur == currentProject(projs, sel)
    IN IF ~cur.found THEN ZeroTotals
       ELSE ProjectTotalsLoop(cur.value.categories, ZeroTotals)

(***************************************************************************)
(* Records of the data model.  A field the object does not have is Undef.  *)
(***************************************************************************)
Allocation(categoryId, paymentId, amount, laborAmount, materialsAmount, date) ==
    [categoryId |-> categoryId, paymentId |-> paymentId, amount |-> amount,
     laborAmount |-> laborAmount, materialsAmount |-> materialsAmount,
     date |-> date]

Expense(id, amount, type) ==
    [id |-> id, amount |-> amount, type |-> type,
     paymentMethod |-> Null, reference |-> Null]

\* an expense or an allocation written by the first schema
ExpenseV1(id, amount) ==
    [id |-> id, amount |-> amount, type |-> Undef,
     paymentMethod |-> Undef, reference |-> Undef]

AllocationV1(categoryId, paymentId, amount, date) ==
    Allocation(categoryId, paymentId, amount, Undef, Undef, date)

Payment(id, paymentMethod, reference, checkNumber, totalAmount, allocations, date) ==
    [id |-> id, paymentMethod |-> paymentMethod, reference |-> reference,
     checkNumber |-> checkNumber, totalAmount |-> totalAmount,
     allocations |-> allocations, date |-> date]

Document(schemaVersion, projs) ==
    [schemaVersion |-> schemaVersion, projects |-> projs]

Category(id, mode, totals, legacy, separate, allocations, expenses) ==
    [id |-> id, name |-> "Kitchen", mode |-> mode,
     totalBudget |-> totals[1], totalCost |-> totals[2],
     clientBudget |-> legacy[1], yourCost |-> legacy[2],
     laborBudget |-> separate[1], laborCost |-> separate[2],
     materialsBudget |-> separate[3],
     allocations |-> allocations, expenses |-> expenses]

Project(id, categories, payments) ==
    [id |-> id, categories |-> categories, payments |-> payments]

(***************************************************************************)
(* The aggregator on drawn inputs: Init draws the function under test and  *)
(* its input, the actions call it.                                         *)
(***************************************************************************)
Date1 == Str("2024-01-15")

\* buffer and remainingToPay: every integer of the range, and NaN
WarningInputs == {Num(n) : n \in (0 - MaxAmount)..MaxAmount} \cup {NaN}

\* (totalBudget, clientBudget) and (totalCost, yourCost) of a drawn category:
\* current fields, legacy fields, both, neither
BudgetPairs ==
    {<<Num(n), Undef>> : n \in {0, 2, MaxAmount}}
      \cup {<<Undef, Num(3)>>, <<Null, Num(3)>>, <<Undef, Undef>>,
            <<Null, Undef>>, <<Num(2), Num(3)>>}

AllInclusiveAllocations ==
    {Allocation(Undef, Num(1), a, Null, Null, Date1) :
        a \in {Undef, Null, Num(1), Num(2)}}

AllInclusiveExpenses == {Expense(1, Num(n), Null) : n \in {1, 3}}

\* budget 30000, cost 22000, one allocation of 10000, one expense of 5000
ExampleAllInclusive ==
    Category(1, Str("all-inclusive"), <<Num(30000), Num(22000)>>,
             <<Undef, Undef>>, <<Null, Null, Null>>,
             <<Allocation(Undef, Num(1), Num(10000), Null, Null, Date1)>>,
             <<Expense(1, Num(5000), Null)>>)

AllInclusiveInputs ==
    {Category(1, m, <<b[1], c[1]>>, <<b[2], c[2]>>, <<Null, Null, Null>>, al, ex) :
        m \in {Undef, Str("all-inclusive")},
        b \in BudgetPairs, c \in BudgetPairs,
        al \in SeqsUpTo(AllInclusiveAllocations, MaxLen),
        ex \in SeqsUpTo(AllInclusiveExpenses, MaxLen)}
      \cup {ExampleAllInclusive}

SeparateAllocations ==
    {Allocation(Undef, Num(1), Null, l, m, Date1) :
        l \in {Null, Num(1)}, m \in {Null, Num(2)}}
      \ {Allocation(Undef, Num(1), Null, Null, Null, Date1)}

SeparateExpenses ==
    {Expense(1, Num(1), Str("labor")), Expense(1, Num(3), Str("labor")),
     Expense(1, Num(1), Str("materials")), Expense(1, Num(1), Null)}

\* laborBudget 45000, laborCost 32000, labor fully collected and fully paid
ExampleSeparate ==
    Category(1, Str("separate"), <<Null, Null>>, <<Undef, Undef>>,
             <<Num(45000), Num(32000), Num(0)>>,
             <<Allocation(Undef, Num(1), Null, Num(32000), Null, Date1)>>,
             <<Expense(1, Num(32000), Str("labor"))>>)

SeparateInputs ==
    {Category(1, Str("separate"), <<Null, Null>>, <<Undef, Undef>>,
              <<lb, lc, mb>>, al, ex) :
        lb \in {Null, Num(2), Num(MaxAmount)},
        lc \in {Num(0), Num(2), Num(MaxAmount)},
        mb \in {Null, Num(0), Num(3)},
        al \in SeqsUpTo(SeparateAllocations, MaxLen),
        ex \in SeqsUpTo(SeparateExpenses, MaxLen)}
      \cup {ExampleSeparate}

\* the categories of a drawn project: both modes, every warning level
RollupCategories ==
    {Category(1, Str("all-inclusive"), b, <<Undef, Undef>>,
              <<Null, Null, Null>>, al, ex) :
        b \in {<<Num(MaxAmount), Num(MaxAmount)>>, <<Num(MaxAmount), Num(2)>>,
               <<Num(2), Num(MaxAmount)>>},
        al \in {<<>>, <<Allocation(Undef, Num(1), Num(1), Null, Null, Date1)>>},
        ex \in {<<>>, <<Expense(1, Num(1), Null)>>}}
      \cup
    {Category(2, Str("separate"), <<Null, Null>>, <<Undef, Undef>>, s, al, ex) :
        s \in {<<Num(MaxAmount), Num(MaxAmount), Num(3)>>,
               <<Num(2), Num(MaxAmount), Num(0)>>,
               <<Num(MaxAmount), Num(2), Num(3)>>},
        al \in {<<>>, <<Allocation(Undef, Num(1), Null, Num(1), Num(2), Date1)>>},
        ex \in {<<>>, <<Expense(1, Num(1), Str("labor"))>>}}

NoCall == [fn |-> "none"]
NoOp == [op |-> "none"]
EmptyDocument == Document(Undef, <<>>)
NoItem == [present |-> FALSE, data |-> EmptyDocument]
NoProject == Project(0, <<>>, <<>>)
NotLoaded == [done |-> FALSE, projects |-> <<>>]

InitAgg ==
    /\ clock = 0
    /\ isLoading = FALSE
    /\ last = NoOp
    /\ storage = NoItem
    /\ doc = EmptyDocument /\ data = EmptyDocument /\ returned = <<>>
    /\ saved = NoProject /\ loaded = NotLoaded
    /\ pending = <<>>
    /\ aggOut = NoCall
    /\ \/ /\ \E b \in WarningInputs, r \in WarningInputs :
                aggIn = [fn |-> "getWarningLevel", buffer |-> b,
                         remainingToPay |-> r]
          /\ projects = <<>>
          /\ selectedProject = Null
       \/ /\ \E c \in AllInclusiveInputs \cup SeparateInputs :
                aggIn = [fn |-> "getCategoryTotals", category |-> c]
          /\ projects = <<>>
          /\ selectedProject = Null
       \/ /\ aggIn = [fn |-> "getProjectTotals"]
          /\ \E cats \in SeqsUpTo(RollupCategories, MaxLen) :
                projects = <<Project(1, cats, <<>>),
                             Project(2, <<ExampleAllInclusive>>, <<>>)>>
          /\ selectedProject \in {Null, Num(1), Num(3)}

CallGetWarningLevel ==
    /\ aggIn.fn = "getWarningLevel"
    /\ aggOut = NoCall
    /\ aggOut' = [fn |-> "getWarningLevel",
                  value |-> getWarningLevel(aggIn.buffer, aggIn.remainingToPay)]
    /\ UNCHANGED <<appVars, storage, migVars, storeVars, asyncVars, aggIn>>

CallGetCategoryTotals ==
    /\ aggIn.fn = "getCategoryTotals"
    /\ aggOut = NoCall
    /\ aggOut' = [fn |-> "getCategoryTotals",
                  value |-> getCategoryTotals(aggIn.category)]
    /\ UNCHANGED <<appVars, storage, migVars, storeVars, asyncVars, aggIn>>

CallGetProjectTotals ==
    /\ aggIn.fn = "getProjectTotals"
    /\ aggOut = NoCall
    /\ aggOut' = [fn |-> "getProjectTotals",
                  value |-> getProjectTotals(projects, selectedProject)]
    /\ UNCHANGED <<appVars, storage, migVars, storeVars, asyncVars, aggIn>>

NextAgg == CallGetWarningLevel \/ CallGetCategoryTotals \/ CallGetProjectTotals

SpecAgg == InitAgg /\ [][NextAgg]_vars

(***************************************************************************)
(* Reference arithmetic of the claims: plain integer sums.                 *)
(***************************************************************************)
NumberOr0(v) == IF v.t = "num" THEN v.n ELSE 0

Count(seq, test(_)) == Cardinality({i \in DOMAIN seq : test(seq[i])})

\* the warning rule over integers: 20% of r is r / 5
WarningRule(b, r) ==
    IF r <= 0 THEN "green"
    ELSE IF b < 0 THEN "red"
    ELSE IF 5 * b <= r THEN "yellow"
    ELSE "green"

WarningCalled == aggOut.fn = "getWarningLevel"

\* C7: getWarningLevel(buffer, remainingToPay) is green when remainingToPay
\* <= 0, otherwise red when buffer < 0, otherwise yellow when buffer is at
\* most a fifth of remainingToPay, otherwise green (a NaN operand fails every
\* comparison); buffer < 0 with remainingToPay > 0 is red, never yellow.
C7_WarningRule ==
    WarningCalled =>
        LET b == aggIn.buffer
            r == aggIn.remainingToPay
        IN /\ (IsNum(b) /\ IsNum(r)) => aggOut.value = WarningRule(b.n, r.n)
           /\ (IsNum(r) /\ r.n <= 0) => aggOut.value = "green"
           /\ (IsNum(b) /\ b.n < 0 /\ IsNum(r) /\ r.n > 0) => aggOut.value = "red"
           /\ (~IsNum(r) /\ IsNum(b)) =>
                 aggOut.value = IF b.n < 0 THEN "red" ELSE "green"
           /\ (~IsNum(b)) => aggOut.value = "green"

C7_Witness ==
    /\ WarningCalled
    /\ IsNum(aggIn.buffer) /\ aggIn.buffer.n < 0
    /\ IsNum(aggIn.remainingToPay) /\ aggIn.remainingToPay.n > 0
    /\ aggOut.value = "red"

AllInclusiveCalled ==
    /\ aggOut.fn = "getCategoryTotals"
    /\ aggIn.category.mode # Str("separate")

\* C8: for an all-inclusive category getCategoryTotals returns collected =
\* sum of the allocation amounts (missing or null counted 0), paid = sum of
\* the expense amounts, remainingToCollect = budget - collected,
\* remainingToPay = cost - paid, buffer = remainingToCollect - remainingToPay,
\* warningLevel = the warning rule of (buffer, remainingToPay),
\* projectedProfit = budget - cost, currentMargin = collected - paid; the
\* example 30000 / 22000 / 10000 / 5000 gives buffer 3000 and yellow.
C8_AllInclusiveTotals ==
    AllInclusiveCalled =>
        LET c == aggIn.category
            t == aggOut.value
            AmountOf(a) == NumberOr0(a.amount)
            Paid(e) == e.amount.n
            collected == SumOver(c.allocations, AmountOf)
            paid == SumOver(c.expenses, Paid)
        IN /\ t.mode = "all-inclusive"
           /\ IsNum(t.budget) /\ IsNum(t.cost)
           /\ IsNum(c.totalBudget) => t.budget = c.totalBudget
           /\ IsNum(c.totalCost) => t.cost = c.totalCost
           /\ t.collected = Num(collected)
           /\ t.paid = Num(paid)
           /\ t.remainingToCollect = Num(t.budget.n - collected)
           /\ t.remainingToPay = Num(t.cost.n - paid)
           /\ t.buffer = Num((t.budget.n - collected) - (t.cost.n - paid))
           /\ t.warningLevel =
                WarningRule((t.budget.n - collected) - (t.cost.n - paid),
                            t.cost.n - paid)
           /\ t.projectedProfit = Num(t.budget.n - t.cost.n)
           /\ t.currentMargin = Num(collected - paid)
           /\ c = ExampleAllInclusive =>
                 /\ t.collected = Num(10000) /\ t.paid = Num(5000)
                 /\ t.remainingToCollect = Num(20000)
                 /\ t.remainingToPay = Num(17000)
                 /\ t.buffer = Num(3000) /\ t.warningLevel = "yellow"

C8_Witness ==
    /\ AllInclusiveCalled
    /\ \E i \in DOMAIN aggIn.category.allocations :
          ~IsNum(aggIn.category.allocations[i].amount)
    /\ \E i \in DOMAIN aggIn.category.allocations :
          IsNum(aggIn.category.allocations[i].amount)
    /\ aggIn.category.expenses # <<>>
    /\ aggOut.value.collected.n > 0
    /\ aggOut.value.warningLevel = "yellow"

SeparateCalled ==
    /\ aggOut.fn = "getCategoryTotals"
    /\ aggIn.category.mode = Str("separate")

\* C9: for a separate-mode category getCategoryTotals computes labor and
\* materials independently: laborCollected / materialsCollected are the sums
\* of the allocation laborAmount / materialsAmount, laborPaid / materialsPaid
\* the sums of the expense amounts of type labor / materials,
\* laborRemainingToPay = laborCost - laborPaid, materialsRemainingToPay =
\* materialsBudget - materialsPaid, totalBudget = laborBudget +
\* materialsBudget, totalCost = laborCost + materialsBudget, totalCollected
\* and totalPaid the labor + materials sums, projectedProfit = laborBudget -
\* laborCost (a null budget field counted 0).
C9_SeparateTotals ==
    SeparateCalled =>
        LET c == aggIn.category
            t == aggOut.value
            Labor(a) == NumberOr0(a.laborAmount)
            Materials(a) == NumberOr0(a.materialsAmount)
            LaborPaid(e) == IF e.type = Str("labor") THEN e.amount.n ELSE 0
            MaterialsPaid(e) == IF e.type = Str("materials") THEN e.amount.n ELSE 0
            laborCollected == SumOver(c.allocations, Labor)
            materialsCollected == SumOver(c.allocations, Materials)
            laborPaid == SumOver(c.expenses, LaborPaid)
            materialsPaid == SumOver(c.expenses, MaterialsPaid)
            laborBudget == NumberOr0(c.laborBudget)
            laborCost == NumberOr0(c.laborCost)
            materialsBudget == NumberOr0(c.materialsBudget)
        IN /\ t.mode = "separate"
           /\ t.laborCollected = Num(laborCollected)
           /\ t.materialsCollected = Num(materialsCollected)
           /\ t.laborPaid = Num(laborPaid)
           /\ t.materialsPaid = Num(materialsPaid)
           /\ t.laborRemainingToCollect = Num(laborBudget - laborCollected)
           /\ t.laborRemainingToPay = Num(laborCost - laborPaid)
           /\ t.laborBuffer =
                Num((laborBudget - laborCollected) - (laborCost - laborPaid))
           /\ t.laborWarningLevel =
                WarningRule((laborBudget - laborCollected) - (laborCost - laborPaid),
                            laborCost - laborPaid)
           /\ t.laborProfit = Num(laborBudget - laborCost)
           /\ t.materialsRemainingToCollect = Num(materialsBudget - materialsCollected)
           /\ t.materialsRemainingToPay = Num(materialsBudget - materialsPaid)
           /\ t.totalBudget = Num(laborBudget + materialsBudget)
           /\ t.totalCost = Num(laborCost + materialsBudget)
           /\ t.totalCollected = Num(laborCollected + materialsCollected)
           /\ t.totalPaid = Num(laborPaid + materialsPaid)
           /\ t.projectedProfit = Num(laborBudget - laborCost)
           /\ c = ExampleSeparate =>
                 t.laborRemainingToPay = Num(0) /\ t.laborWarningLevel = "green"

C9_Witness ==
    /\ SeparateCalled
    /\ \E i \in DOMAIN aggIn.category.expenses :
          aggIn.category.expenses[i].type = Str("labor")
    /\ \E i \in DOMAIN aggIn.category.expenses :
          aggIn.category.expenses[i].type = Str("materials")
    /\ aggOut.value.laborCollected.n > 0
    /\ aggOut.value.materialsCollected.n > 0
    /\ aggOut.value.materialsPaid.n > 0
    /\ aggOut.value.totalCost.n > aggOut.value.totalPaid.n

ProjectTotalsCalled == aggOut.fn = "getProjectTotals"

\* the single warning level of a category
SingleLevel(c) ==
    LET t == getCategoryTotals(c)
    IN IF c.mode = Str("separate") THEN t.laborWarningLevel ELSE t.warningLevel

\* C10: getProjectTotals of the selected project returns budget, cost,
\* collected and paid totals equal to the sums of the per-category
\* totalBudget, totalCost, totalCollected and totalPaid, and health counts in
\* which each category is counted once under its single warning level, so
\* green + yellow + red is the number of categories; with no selected
\* project every total and count is 0.
C10_ProjectRollup ==
    ProjectTotalsCalled =>
        LET t == aggOut.value
            Selected == {i \in DOMAIN projects : Num(projects[i].id) = selectedProject}
            Budget(c) == getCategoryTotals(c).totalBudget.n
            Cost(c) == getCategoryTotals(c).totalCost.n
            Collected(c) == getCategoryTotals(c).totalCollected.n
            Paid(c) == getCategoryTotals(c).totalPaid.n
            Green(c) == SingleLevel(c) = "green"
            Yellow(c) == SingleLevel(c) = "yellow"
            Red(c) == SingleLevel(c) = "red"
        IN /\ Selected = {} =>
                 /\ t.totalBudget = Num(0) /\ t.totalCost = Num(0)
                 /\ t.totalPaid = Num(0) /\ t.totalSpent = Num(0)
                 /\ t.green = 0 /\ t.yellow = 0 /\ t.red = 0
           /\ \A i \in Selected :
                 LET cats == projects[i].categories
                 IN /\ t.totalBudget = Num(SumOver(cats, Budget))
                    /\ t.totalCost = Num(SumOver(cats, Cost))
                    /\ t.totalPaid = Num(SumOver(cats, Collected))
                    /\ t.totalSpent = Num(SumOver(cats, Paid))
                    /\ t.green = Count(cats, Green)
                    /\ t.yellow = Count(cats, Yellow)
                    /\ t.red = Count(cats, Red)
                    /\ t.green + t.yellow + t.red = Len(cats)

C10_Witness ==
    /\ ProjectTotalsCalled
    /\ selectedProject = Num(1)
    /\ Len(projects[1].categories) = 2
    /\ projects[1].categories[1].mode = Str("separate")
    /\ projects[1].categories[2].mode = Str("all-inclusive")
    /\ aggOut.value.yellow = 1
    /\ aggOut.value.red = 1
    /\ aggOut.value.totalPaid.n > 0

(***************************************************************************)
(* Schema migrator (lib/supabase.js).                                      *)
(***************************************************************************)
SCHEMA_VERSION == 2

MigrateExpense(exp) ==
    [exp EXCEPT !.type = Or(exp.type, Null),
                !.paymentMethod = Or(exp.paymentMethod, Null),
                !.reference = Or(exp.reference, Null)]

MigrateAllocation(alloc) ==
    [alloc EXCEPT !.amount = Coalesce(alloc.amount, Num(0)),
                  !.laborAmount = Or(alloc.laborAmount, Null),
                  !.materialsAmount = Or(alloc.materialsAmount, Null)]

MigrateAllocationsDroppingZero(allocations) ==
    LET Positive(a) == GtZero(a.amount)
    IN MapSeq(Filter(allocations, Positive), MigrateAllocation)

\* (x.allocations || []).map(alloc => ...)
MigrateAllocations(allocations) == MapSeq(allocations, MigrateAllocation)

\* a migrator that reads the second schema's names first
MigrateCategoryPreferringTotals(cat) ==
    [cat EXCEPT !.mode = Str("all-inclusive"),
                !.totalBudget = Coalesce(cat.totalBudget,
                                         Coalesce(cat.clientBudget, Num(0))),
                !.totalCost = Coalesce(cat.totalCost,
                                       Coalesce(cat.yourCost, Num(0))),
                !.laborBudget = Null,
                !.laborCost = Null,
                !.materialsBudget = Null,
                !.expenses = MapSeq(cat.expenses, MigrateExpense),
                !.allocations = MigrateAllocations(cat.allocations)]

MigrateCategory(cat) ==
    [cat EXCEPT !.mode = Str("all-inclusive"),
                !.totalBudget = Coalesce(cat.clientBudget,
                                         Coalesce(cat.totalBudget, Num(0))),
                !.totalCost = Coalesce(cat.yourCost,
                                       Coalesce(cat.totalCost, Num(0))),
                !.laborBudget = Null,
                !.laborCost = Null,
                !.materialsBudget = Null,
                !.expenses = MapSeq(cat.expenses, MigrateExpense),
                !.allocations = MigrateAllocations(cat.allocations)]

MigratePayment(pay) ==
    [pay EXCEPT !.paymentMethod = Or(pay.paymentMethod, Str("check")),
                !.reference = Or(pay.reference, Or(pay.checkNumber, Str(""))),
                !.allocations = MigrateAllocations(pay.allocations)]

MigrateProject(project) ==
    [project EXCEPT !.categories = MapSeq(project.categories, MigrateCategory),
                    !.payments = MapSeq(project.payments, MigratePayment)]

\* if (currentVersion >= SCHEMA_VERSION) return data
UpToDate(currentVersion) == currentVersion.n >= SCHEMA_VERSION

\* a migrator that rewrites whatever version it is handed
migrateDataIgnoringVersion(d) ==
    Document(Num(SCHEMA_VERSION), MapSeq(d.projects, MigrateProject))

\* The value returned; the object passed is the object returned, with its
\* projects and schemaVersion assigned in place.
migrateData(d) ==
    LET currentVersion == Or(d.schemaVersion, Num(1))
    IN IF UpToDate(currentVersion) THEN d
       ELSE Document(Num(SCHEMA_VERSION),
                     IF currentVersion.n < 2
                     THEN MapSeq(d.projects, MigrateProject)
                     ELSE d.projects)

(***************************************************************************)
(* The migrator on drawn documents.                                        *)
(***************************************************************************)
\* categories as the first schema wrote them (clientBudget / yourCost, flat
\* allocations), with fields missing, and as the second schema writes them
DocCategories ==
    {Category(1, Undef, <<Undef, Undef>>, <<Num(3), Num(1)>>,
              <<Undef, Undef, Undef>>,
              <<AllocationV1(Undef, Num(1), Num(1), Date1)>>,
              <<ExpenseV1(1, Num(1))>>),
     Category(2, Undef, <<Undef, Undef>>, <<Undef, Undef>>,
              <<Undef, Undef, Undef>>,
              <<AllocationV1(Undef, Num(1), Undef, Date1),
                AllocationV1(Undef, Num(2), Null, Date1)>>,
              <<>>),
     Category(3, Undef, <<Num(2), Num(2)>>, <<Num(3), Undef>>,
              <<Undef, Undef, Undef>>,
              <<AllocationV1(Undef, Num(1), Num(0), Date1)>>,
              <<ExpenseV1(1, Num(1)), ExpenseV1(2, Num(3))>>),
     Category(4, Str("all-inclusive"), <<Num(MaxAmount), Num(2)>>,
              <<Undef, Undef>>, <<Null, Null, Null>>,
              <<Allocation(Undef, Num(1), Num(1), Null, Null, Date1)>>,
              <<Expense(1, Num(1), Null)>>),
     Category(5, Str("separate"), <<Null, Null>>, <<Undef, Undef>>,
              <<Num(MaxAmount), Num(2), Num(3)>>,
              <<Allocation(Undef, Num(1), Null, Num(1), Num(2), Date1)>>,
              <<Expense(1, Num(1), Str("labor")),
                Expense(2, Num(1), Str("materials"))>>),
     Category(6, Undef, <<Num(2), Num(1)>>, <<Num(0), Null>>,
              <<Undef, Undef, Undef>>, <<>>, <<>>)}

DocPayments ==
    {Payment(1, Undef, Undef, Str("101"), Num(1),
             <<AllocationV1(Num(1), Undef, Num(1), Undef)>>, Date1),
     Payment(2, Undef, Str(""), Str("102"), Num(1),
             <<AllocationV1(Num(2), Undef, Undef, Undef),
               AllocationV1(Num(3), Undef, Num(0), Undef)>>, Date1),
     Payment(3, Undef, Undef, Undef, Num(0), <<>>, Date1),
     Payment(4, Str("zelle"), Str("R7"), Undef, Num(3),
             <<Allocation(Num(5), Undef, Num(0), Num(1), Num(2), Undef)>>, Date1)}

DocProjects ==
    {Project(1, cats, pays) :
        cats \in SeqsUpTo(DocCategories, MaxDocCategories),
        pays \in SeqsUpTo(DocPayments, MaxDocPayments)}

OtherProject ==
    Project(2, <<CHOOSE c \in DocCategories : c.id = 1>>,
               <<CHOOSE q \in DocPayments : q.id = 1>>)

Documents ==
    {Document(v, ps) :
        v \in {Undef, Num(1), Num(2)},
        ps \in {<<>>} \cup {<<p>> : p \in DocProjects}
                      \cup {<<OtherProject, p>> : p \in DocProjects}}

InitMig ==
    /\ clock = 0
    /\ isLoading = FALSE
    /\ last = NoOp
    /\ projects = <<>>
    /\ selectedProject = Null
    /\ storage = NoItem
    /\ aggIn = NoCall /\ aggOut = NoCall
    /\ saved = NoProject /\ loaded = NotLoaded
    /\ pending = <<>>
    /\ doc \in Documents
    /\ data = doc
    /\ returned = <<>>

\* data = migrateData(data), as db.getProjects calls it
CallMigrateData ==
    /\ Len(returned) < 2
    /\ returned' = Append(returned, migrateData(data))
    /\ data' = migrateData(data)
    /\ UNCHANGED <<appVars, storage, aggVars, storeVars, asyncVars, doc>>

NextMig == CallMigrateData

SpecMig == InitMig /\ [][NextMig]_vars

FirstSchema(d) == d.schemaVersion \in {Undef, Num(1)}

\* C4: migrateData(migrateData(d)) = migrateData(d) for a document whose
\* schemaVersion is absent, 1 or 2, and migrateData of a document already at
\* version 2 returns it with every field unchanged.
C4_MigrationIdempotent ==
    /\ Len(returned) = 2 => returned[2] = returned[1]
    /\ (Len(returned) >= 1 /\ doc.schemaVersion = Num(2)) => returned[1] = doc

C4_Witness ==
    /\ Len(returned) = 2
    /\ doc.schemaVersion = Num(2)
    /\ \E i \in DOMAIN doc.projects :
          \E j \in DOMAIN doc.projects[i].categories :
             /\ doc.projects[i].categories[j].mode = Str("separate")
             /\ returned[2].projects[i].categories[j].mode = Str("separate")

Ids(seq) == [i \in DOMAIN seq |-> seq[i].id]
PaymentIds(seq) == [i \in DOMAIN seq |-> seq[i].paymentId]
CategoryIds(seq) == [i \in DOMAIN seq |-> seq[i].categoryId]

\* C5: migrating a version-1 document drops no record: the same number of
\* projects, per project the same categories and payments, per category the
\* same expenses and allocations, per payment the same allocations, in the
\* same order; and every migrated category has a non-null mode.
C5_MigrationDropsNothing ==
    (Len(returned) >= 1 /\ FirstSchema(doc)) =>
        LET out == returned[1]
        IN /\ out.schemaVersion = Num(2)
           /\ Ids(out.projects) = Ids(doc.projects)
           /\ \A i \in DOMAIN doc.projects :
                LET p == doc.projects[i]
                    q == out.projects[i]
                IN /\ Ids(q.categories) = Ids(p.categories)
                   /\ Ids(q.payments) = Ids(p.payments)
                   /\ \A j \in DOMAIN p.categories :
                        /\ Ids(q.categories[j].expenses) = Ids(p.categories[j].expenses)
                        /\ PaymentIds(q.categories[j].allocations)
                             = PaymentIds(p.categories[j].allocations)
                        /\ q.categories[j].mode \in
                             {Str("all-inclusive"), Str("separate")}
                   /\ \A j \in DOMAIN p.payments :
                        CategoryIds(q.payments[j].allocations)
                          = CategoryIds(p.payments[j].allocations)

C5_Witness ==
    /\ Len(returned) >= 1
    /\ doc.schemaVersion = Undef
    /\ Len(doc.projects) = 2
    /\ Len(doc.projects[2].categories) = 2
    /\ Len(doc.projects[2].payments) = 1
    /\ \E j \in DOMAIN doc.projects[2].categories :
          /\ doc.projects[2].categories[j].mode = Undef
          /\ Len(doc.projects[2].categories[j].allocations) = 2
          /\ Len(returned[1].projects[2].categories[j].allocations) = 2
    /\ Len(doc.projects[2].payments[1].allocations) = 2
    /\ returned[1].projects[2].payments[1].paymentMethod = Str("check")

(***************************************************************************)
(* Local fallback store of the persistence gateway (no Supabase client).   *)
(***************************************************************************)
\* JSON.parse(JSON.stringify(x)): NaN is written as null; a field holding
\* undefined is not written and reads back as undefined.
JsonValue(v) == IF v.t = "NaN" THEN Null ELSE v

JsonAllocation(a) ==
    [categoryId |-> JsonValue(a.categoryId), paymentId |-> JsonValue(a.paymentId),
     amount |-> JsonValue(a.amount), laborAmount |-> JsonValue(a.laborAmount),
     materialsAmount |-> JsonValue(a.materialsAmount), date |-> JsonValue(a.date)]

JsonExpense(e) ==
    [id |-> e.id, amount |-> JsonValue(e.amount), type |-> JsonValue(e.type),
     paymentMethod |-> JsonValue(e.paymentMethod),
     reference |-> JsonValue(e.reference)]

JsonCategory(c) ==
    [id |-> c.id, name |-> c.name, mode |-> JsonValue(c.mode),
     totalBudget |-> JsonValue(c.totalBudget), totalCost |-> JsonValue(c.totalCost),
     clientBudget |-> JsonValue(c.clientBudget), yourCost |-> JsonValue(c.yourCost),
     laborBudget |-> JsonValue(c.laborBudget), laborCost |-> JsonValue(c.laborCost),
     materialsBudget |-> JsonValue(c.materialsBudget),
     allocations |-> MapSeq(c.allocations, JsonAllocation),
     expenses |-> MapSeq(c.expenses, JsonExpense)]

JsonPayment(q) ==
    [id |-> q.id, paymentMethod |-> JsonValue(q.paymentMethod),
     reference |-> JsonValue(q.reference), checkNumber |-> JsonValue(q.checkNumber),
     totalAmount |-> JsonValue(q.totalAmount),
     allocations |-> MapSeq(q.allocations, JsonAllocation),
     date |-> JsonValue(q.date)]

JsonProject(p) ==
    [id |-> p.id, categories |-> MapSeq(p.categories, JsonCategory),
     payments |-> MapSeq(p.payments, JsonPayment)]

JsonDocument(d) ==
    Document(JsonValue(d.schemaVersion), MapSeq(d.projects, JsonProject))

\* localStorage.setItem('contractor-crm-data', JSON.stringify(d))
SetItem(d) == [present |-> TRUE, data |-> JsonDocument(d)]

\* db.saveProject(project), localStorage fallback: the item after the call
dbSaveProject(store, project) ==
    LET d == IF store.present THEN store.data ELSE EmptyDocument
        HasId(p) == p.id = project.id
        existing == {i \in DOMAIN d.projects : HasId(d.projects[i])}
        projs == IF existing # {}
                 THEN [d.projects EXCEPT
                         ![CHOOSE i \in existing : \A j \in existing : i <= j]
                             = project]
                 ELSE Append(d.projects, project)
    IN SetItem(Document(d.schemaVersion, projs))

\* db.getProjects(), localStorage fallback: the item after the call and the
\* projects returned
dbGetProjects(store) ==
    IF store.present
    THEN LET d == migrateData(store.data)
         IN [storage |-> SetItem(d), projects |-> d.projects]
    ELSE [storage |-> store, projects |-> <<>>]

(***************************************************************************)
(* The store on drawn contents: saveProject(p), then getProjects().        *)
(***************************************************************************)
\* categories as addCategory builds them, in either mode
SavedCategories ==
    {Category(i, Str("all-inclusive"), <<Num(b), Num(2)>>, <<Undef, Undef>>,
              <<Null, Null, Null>>, <<>>, <<>>) : i \in {1}, b \in {0, MaxAmount}}
      \cup
    {Category(i, Str("separate"), <<Null, Null>>, <<Undef, Undef>>,
              <<Num(b), Num(2), Num(3)>>, <<>>, <<>>) : i \in {2}, b \in {0, MaxAmount}}

SavedProjects ==
    {Project(i, cats, <<>>) :
        i \in {1, 3}, cats \in SeqsUpTo(SavedCategories, MaxDocCategories)}

\* prior contents: no item, or a document of any version whose projects may
\* hold the id saved
StoreContents ==
    {NoItem} \cup
    {SetItem(Document(v, ps)) :
        v \in {Undef, Num(1), Num(2)},
        ps \in {<<>>, <<OtherProject>>} \cup
               {<<p>> : p \in {q \in DocProjects : Len(q.payments) = 0
                                                  /\ Len(q.categories) <= 1}}}

InitStore ==
    /\ clock = 0
    /\ isLoading = FALSE
    /\ last = NoOp
    /\ projects = <<>>
    /\ selectedProject = Null
    /\ aggIn = NoCall /\ aggOut = NoCall
    /\ doc = EmptyDocument /\ data = EmptyDocument /\ returned = <<>>
    /\ storage \in StoreContents
    /\ saved = NoProject
    /\ loaded = NotLoaded
    /\ pending = <<>>

CallSaveProject ==
    /\ saved = NoProject
    /\ \E p \in SavedProjects :
          /\ saved' = p
          /\ storage' = dbSaveProject(storage, p)
    /\ UNCHANGED <<appVars, aggVars, migVars, asyncVars, loaded>>

CallGetProjects ==
    /\ saved # NoProject
    /\ ~loaded.done
    /\ loaded' = [done |-> TRUE, projects |-> dbGetProjects(storage).projects]
    /\ storage' = dbGetProjects(storage).storage
    /\ UNCHANGED <<appVars, aggVars, migVars, asyncVars, saved>>

NextStore == CallSaveProject \/ CallGetProjects

SpecStore == InitStore /\ [][NextStore]_vars

BudgetFields(c) ==
    <<c.mode, c.totalBudget, c.totalCost, c.laborBudget, c.laborCost,
      c.materialsBudget>>

\* C6: after db.saveProject(p) and db.getProjects() on any prior store
\* contents, a project with p's id is returned whose categories have the
\* mode, totalBudget, totalCost, laborBudget, laborCost and materialsBudget
\* that were saved.
C6_SaveLoadRoundTrip ==
    loaded.done =>
        \E i \in DOMAIN loaded.projects :
           /\ loaded.projects[i].id = saved.id
           /\ MapSeq(loaded.projects[i].categories, BudgetFields)
                = MapSeq(saved.categories, BudgetFields)

(***************************************************************************)
(* Ledger mutation handlers of the application component.  Each handler is *)
(* a function of the `projects` and `selectedProject` its closure holds.   *)
(***************************************************************************)
IsSelected(p, sel) == Num(p.id) = sel

\* addProject: the project appended
addProject(projs, id) == Append(projs, Project(id, <<>>, <<>>))

\* NewCategoryForm.handleSubmit: the categoryData handed to addCategory
NewCategoryFormSubmit(form) ==
    [mode |-> form.mode,
     totalBudget |-> IF form.mode = Str("all-inclusive") THEN form.totalBudget ELSE Null,
     totalCost |-> IF form.mode = Str("all-inclusive") THEN form.totalCost ELSE Null,
     laborBudget |-> IF form.mode = Str("separate") THEN form.laborBudget ELSE Null,
     laborCost |-> IF form.mode = Str("separate") THEN form.laborCost ELSE Null,
     materialsBudget |-> IF form.mode = Str("separate") THEN form.materialsBudget ELSE Null]

\* a newCategory that stores what parseFloat returns
newCategoryWithoutDefault(categoryData, id) ==
    IF categoryData.mode = Str("separate")
    THEN Category(id, categoryData.mode, <<Null, Null>>, <<Undef, Undef>>,
                  <<parseFloat(categoryData.laborBudget),
                    parseFloat(categoryData.laborCost),
                    parseFloat(categoryData.materialsBudget)>>,
                  <<>>, <<>>)
    ELSE Category(id, categoryData.mode,
                  <<parseFloat(categoryData.totalBudget),
                    parseFloat(categoryData.totalCost)>>,
                  <<Undef, Undef>>, <<Null, Null, Null>>, <<>>, <<>>)

newCategory(categoryData, id) ==
    IF categoryData.mode = Str("separate")
    THEN Category(id, categoryData.mode, <<Null, Null>>, <<Undef, Undef>>,
                  <<Or(parseFloat(categoryData.laborBudget), Num(0)),
                    Or(parseFloat(categoryData.laborCost), Num(0)),
                    Or(parseFloat(categoryData.materialsBudget), Num(0))>>,
                  <<>>, <<>>)
    ELSE Category(id, categoryData.mode,
                  <<Or(parseFloat(categoryData.totalBudget), Num(0)),
                    Or(parseFloat(categoryData.totalCost), Num(0))>>,
                  <<Undef, Undef>>, <<Null, Null, Null>>, <<>>, <<>>)

addCategory(projs, sel, categoryData, id) ==
    LET Add(p) == IF IsSelected(p, sel)
                  THEN [p EXCEPT !.categories =
                                    Append(@, newCategory(categoryData, id))]
                  ELSE p
    IN MapSeq(projs, Add)

\* NewPaymentForm.handleSubmit: one allocation request per category the form
\* was opened with, the amounts of the other mode 0
NewPaymentFormSubmit(categories, form) ==
    LET Request(i) ==
          LET mode == Or(categories[i].mode, Str("all-inclusive"))
              a == form.allocations[i]
          IN Allocation(Num(categories[i].id), Undef,
                        IF mode = Str("all-inclusive")
                        THEN Or(parseFloat(a.amount), Num(0)) ELSE Num(0),
                        IF mode = Str("separate")
                        THEN Or(parseFloat(a.laborAmount), Num(0)) ELSE Num(0),
                        IF mode = Str("separate")
                        THEN Or(parseFloat(a.materialsAmount), Num(0)) ELSE Num(0),
                        Undef)
    IN [paymentMethod |-> form.paymentMethod,
        reference |-> form.reference,
        totalAmount |-> form.totalAmount,
        date |-> form.date,
        allocations |-> [i \in DOMAIN categories |-> Request(i)]]

\* (a.amount > 0) || (a.laborAmount > 0) || (a.materialsAmount > 0)
\* a test that looks at the all-inclusive amount only
HasAllocationAmountOnly(a) == GtZero(a.amount)

HasAllocation(a) ==
    GtZero(a.amount) \/ GtZero(a.laborAmount) \/ GtZero(a.materialsAmount)

newPayment(paymentData, paymentId) ==
    Payment(paymentId, paymentData.paymentMethod, paymentData.reference, Undef,
            parseFloat(paymentData.totalAmount),
            Filter(paymentData.allocations, HasAllocation),
            paymentData.date)

\* the allocation addPayment appends to a category
DistributedAllocation(allocation, paymentId, date) ==
    Allocation(Undef, Num(paymentId),
               Or(parseFloat(allocation.amount), Null),
               Or(parseFloat(allocation.laborAmount), Null),
               Or(parseFloat(allocation.materialsAmount), Null),
               date)

addPayment(projs, sel, paymentData, paymentId) ==
    LET Distribute(cat) ==
          LET ForCat(a) == a.categoryId = Num(cat.id)
              allocation == Find(paymentData.allocations, ForCat)
          IN IF ~allocation.found THEN cat
             ELSE IF HasAllocation(allocation.value)
                  THEN [cat EXCEPT !.allocations =
                          Append(@, DistributedAllocation(allocation.value,
                                        paymentId, paymentData.date))]
                  ELSE cat
        Add(p) == IF IsSelected(p, sel)
                  THEN [p EXCEPT !.categories = MapSeq(p.categories, Distribute),
                                 !.payments =
                                    Append(@, newPayment(paymentData, paymentId))]
                  ELSE p
    IN MapSeq(projs, Add)

\* NewExpenseForm.handleSubmit: the expenseData handed to addExpense
NewExpenseFormSubmit(categories, form) ==
    LET Chosen(c) == c.id = form.categoryId
        selectedCategory == Find(categories, Chosen)
        isSeparateMode == selectedCategory.found
                            /\ selectedCategory.value.mode = Str("separate")
    IN [categoryId |-> form.categoryId,
        amount |-> form.amount,
        date |-> form.date,
        type |-> IF isSeparateMode THEN form.expenseType ELSE Null,
        paymentMethod |-> Or(form.paymentMethod, Null),
        reference |-> Or(form.reference, Null)]

\* an expense booked as money received back
newExpenseAsCredit(expenseData, id) ==
    [id |-> id, amount |-> Minus(Num(0), parseFloat(expenseData.amount)),
     type |-> Or(expenseData.type, Null),
     paymentMethod |-> Or(expenseData.paymentMethod, Null),
     reference |-> Or(expenseData.reference, Null)]

newExpense(expenseData, id) ==
    [id |-> id, amount |-> parseFloat(expenseData.amount),
     type |-> Or(expenseData.type, Null),
     paymentMethod |-> Or(expenseData.paymentMethod, Null),
     reference |-> Or(expenseData.reference, Null)]

addExpense(projs, sel, expenseData, id) ==
    LET AddTo(cat) == IF cat.id = expenseData.categoryId
                      THEN [cat EXCEPT !.expenses =
                                          Append(@, newExpense(expenseData, id))]
                      ELSE cat
        Add(p) == IF IsSelected(p, sel)
                  THEN [p EXCEPT !.categories = MapSeq(p.categories, AddTo)]
                  ELSE p
    IN MapSeq(projs, Add)

\* a deleteProject that resets the list
deleteProjectClearingList(projs, projectId) == <<>>

deleteProject(projs, projectId) ==
    LET Other(p) == p.id # projectId IN Filter(projs, Other)

\* projects.length > 1 ? projects.find(p => p.id !== projectId)?.id : null
selectionAfterDelete(projs, sel, projectId) ==
    LET Other(p) == p.id # projectId
        other == Find(projs, Other)
    IN IF sel # Num(projectId) THEN sel
       ELSE IF Len(projs) > 1
            THEN (IF other.found THEN Num(other.value.id) ELSE Undef)
            ELSE Null

\* a deleteCategory that also drops the entries payments embed for it
deleteCategoryStrippingPayments(projs, sel, categoryId) ==
    LET Other(c) == c.id # categoryId
        OtherEntry(a) == a.categoryId # Num(categoryId)
        Strip(pay) == [pay EXCEPT !.allocations = Filter(@, OtherEntry)]
        Del(p) == IF IsSelected(p, sel)
                  THEN [p EXCEPT !.categories = Filter(@, Other),
                                 !.payments = MapSeq(@, Strip)]
                  ELSE p
    IN MapSeq(projs, Del)

deleteCategory(projs, sel, categoryId) ==
    LET Other(c) == c.id # categoryId
        Del(p) == IF IsSelected(p, sel)
                  THEN [p EXCEPT !.categories = Filter(@, Other)]
                  ELSE p
    IN MapSeq(projs, Del)

deletePaymentKeepingAllocations(projs, sel, paymentId) ==
    LET OtherPayment(pay) == pay.id # paymentId
        Del(p) == IF IsSelected(p, sel)
                  THEN [p EXCEPT !.payments = Filter(@, OtherPayment)]
                  ELSE p
    IN MapSeq(projs, Del)

deletePayment(projs, sel, paymentId) ==
    LET OtherPayment(pay) == pay.id # paymentId
        OtherAllocation(a) == a.paymentId # Num(paymentId)
        Strip(cat) == [cat EXCEPT !.allocations = Filter(@, OtherAllocation)]
        Del(p) == IF IsSelected(p, sel)
                  THEN [p EXCEPT !.payments = Filter(@, OtherPayment),
                                 !.categories = MapSeq(@, Strip)]
                  ELSE p
    IN MapSeq(projs, Del)

deleteExpense(projs, sel, categoryId, expenseId) ==
    LET Other(e) == e.id # expenseId
        From(cat) == IF cat.id = categoryId
                     THEN [cat EXCEPT !.expenses = Filter(@, Other)]
                     ELSE cat
        Del(p) == IF IsSelected(p, sel)
                  THEN [p EXCEPT !.categories = MapSeq(@, From)]
                  ELSE p
    IN MapSeq(projs, Del)

\* Rendering of a payment's allocation entry:
\* cat = currentProject.categories.find(c => c.id === alloc.categoryId)
allocationCategory(project, alloc) ==
    LET Named(c) == Num(c.id) = alloc.categoryId
    IN Find(project.categories, Named)

\* cat?.name || 'Unknown'
allocationCategoryName(project, alloc) ==
    LET cat == allocationCategory(project, alloc)
        name == IF cat.found THEN Str(cat.value.name) ELSE Undef
    IN Or(name, Str("Unknown"))

\* db.deleteProject(projectId), localStorage fallback: the item after the call
\* a delete that leaves the stored document alone
dbDeleteProjectInMemoryOnly(store, projectId) == store

dbDeleteProject(store, projectId) ==
    LET Other(p) == p.id # projectId
    IN IF store.present
       THEN SetItem(Document(store.data.schemaVersion,
                             Filter(store.data.projects, Other)))
       ELSE store

\* The save-on-change effect, run after a render that changed `projects`:
\* the item after it.
SaveOnChange(store, projs, loading) ==
    IF ~loading /\ Len(projs) > 0
    THEN SetItem(Document(Undef, projs))
    ELSE store

(***************************************************************************)
(* The application: one action per handler, run to completion (the await   *)
(* of the gateway call, the state update and the save-on-change effect),   *)
(* in local-storage mode.  The inputs are those the forms and buttons of   *)
(* the page can submit.                                                    *)
(***************************************************************************)
Init ==
    /\ projects = <<>>
    /\ selectedProject = Null
    /\ isLoading = TRUE
    /\ clock = 1
    /\ last = NoOp
    /\ storage = NoItem
    /\ aggIn = NoCall /\ aggOut = NoCall
    /\ doc = EmptyDocument /\ data = EmptyDocument /\ returned = <<>>
    /\ saved = NoProject /\ loaded = NotLoaded
    /\ pending = <<>>

otherVars == <<aggVars, migVars, storeVars, asyncVars>>

\* how much the project list holds; the model stops adding at the bounds
CountCategories(projs) ==
    LET N(p) == Len(p.categories) IN SumOver(projs, N)

CountPayments(projs) ==
    LET N(p) == Len(p.payments) IN SumOver(projs, N)

CountExpenses(projs) ==
    LET E(c) == Len(c.expenses)
        N(p) == SumOver(p.categories, E)
    IN SumOver(projs, N)

current == currentProject(projects, selectedProject)

\* the projects the handlers' `p.id === selectedProject` test picks
SelectedProjects == {i \in DOMAIN projects : IsSelected(projects[i], selectedProject)}

\* the mount effect: loadData
LoadData ==
    /\ isLoading
    /\ LET got == dbGetProjects(storage)
       IN /\ projects' = got.projects
          /\ selectedProject' = IF Len(got.projects) > 0
                                THEN Num(got.projects[1].id)
                                ELSE selectedProject
          /\ storage' = SaveOnChange(got.storage, got.projects, FALSE)
    /\ isLoading' = FALSE
    /\ last' = [op |-> "loadData"]
    /\ UNCHANGED <<clock, otherVars>>

\* the clock of Date.now() advances
Tick ==
    /\ clock < MaxClock
    /\ clock' = clock + 1
    /\ UNCHANGED <<projects, selectedProject, isLoading, last, storage, otherVars>>

SelectProject ==
    /\ ~isLoading
    /\ \E i \in DOMAIN projects :
          /\ selectedProject # Num(projects[i].id)
          /\ selectedProject' = Num(projects[i].id)
    /\ last' = [op |-> "selectProject"]
    /\ UNCHANGED <<projects, clock, isLoading, storage, otherVars>>

AddProject ==
    /\ ~isLoading
    /\ Len(projects) < MaxProjects
    /\ projects' = addProject(projects, clock)
    /\ selectedProject' = Num(clock)
    /\ storage' = SaveOnChange(dbSaveProject(storage, Project(clock, <<>>, <<>>)),
                               projects', isLoading)
    /\ last' = [op |-> "addProject", id |-> clock]
    /\ UNCHANGED <<clock, isLoading, otherVars>>

\* what the category form can hold when it is submitted
CategoryForms ==
    {[mode |-> Str("all-inclusive"), totalBudget |-> Str(b[1]),
      totalCost |-> Str(b[2]), laborBudget |-> Str(""), laborCost |-> Str(""),
      materialsBudget |-> Str("")] :
        b \in {<<"5", "2">>, <<"", "x">>}}
      \cup
    {[mode |-> Str("separate"), totalBudget |-> Str(""), totalCost |-> Str(""),
      laborBudget |-> Str(b[1]), laborCost |-> Str(b[2]),
      materialsBudget |-> Str(b[3])] :
        b \in {<<"5", "", "3">>}}

AddCategory ==
    /\ ~isLoading
    /\ current.found
    /\ CountCategories(projects) < MaxCategories
    /\ \E form \in CategoryForms :
          /\ projects' = addCategory(projects, selectedProject,
                                     NewCategoryFormSubmit(form), clock)
          /\ last' = [op |-> "addCategory", id |-> clock, form |-> form]
    /\ storage' = SaveOnChange(storage, projects', isLoading)
    /\ UNCHANGED <<selectedProject, clock, isLoading, otherVars>>

\* the amounts the payment form can hold for a category of the given mode
AmountInputs(cat) ==
    IF Or(cat.mode, Str("all-inclusive")) = Str("separate")
    THEN {[amount |-> Str(""), laborAmount |-> Str(a[1]),
           materialsAmount |-> Str(a[2])] :
             a \in {<<"", "">>, <<"1", "2">>}}
    ELSE {[amount |-> Str(a), laborAmount |-> Str(""), materialsAmount |-> Str("")] :
             a \in {"", "1"}}

\* the form's running total, which the submit button requires to equal the
\* total amount entered
allocatedTotal(allocations) ==
    LET Entered(a) == Plus(Or(parseFloat(a.amount), Num(0)),
                           Plus(Or(parseFloat(a.laborAmount), Num(0)),
                                Or(parseFloat(a.materialsAmount), Num(0))))
    IN ReduceSum(allocations, Entered, Num(0))

AddPayment ==
    /\ ~isLoading
    /\ current.found
    /\ Len(current.value.categories) > 0
    /\ CountPayments(projects) < MaxPayments
    /\ LET cats == current.value.categories
       IN \E allocations \in [DOMAIN cats -> UNION {AmountInputs(cats[i]) : i \in DOMAIN cats}] :
             /\ \A i \in DOMAIN cats : allocations[i] \in AmountInputs(cats[i])
             /\ LET form == [paymentMethod |-> Str("check"), reference |-> Str(""),
                             totalAmount |-> TextOf(allocatedTotal(allocations).n),
                             date |-> Date1, allocations |-> allocations]
                IN projects' = addPayment(projects, selectedProject,
                                          NewPaymentFormSubmit(cats, form), clock)
    /\ storage' = SaveOnChange(storage, projects', isLoading)
    /\ last' = [op |-> "addPayment", id |-> clock]
    /\ UNCHANGED <<selectedProject, clock, isLoading, otherVars>>

AddExpense ==
    /\ ~isLoading
    /\ current.found
    /\ CountExpenses(projects) < MaxExpenses
    /\ \E i \in DOMAIN current.value.categories :
          /\ \E amount \in {"1"}, expenseType \in {"labor", "materials"} :
                LET form == [categoryId |-> current.value.categories[i].id,
                             amount |-> Str(amount), date |-> Date1,
                             expenseType |-> Str(expenseType),
                             paymentMethod |-> Str(""), reference |-> Str("")]
                IN /\ projects' = addExpense(projects, selectedProject,
                          NewExpenseFormSubmit(current.value.categories, form), clock)
                   /\ last' = [op |-> "addExpense", id |-> clock,
                               categoryId |-> form.categoryId]
    /\ storage' = SaveOnChange(storage, projects', isLoading)
    /\ UNCHANGED <<selectedProject, clock, isLoading, otherVars>>

\* a handler that goes on whatever confirm() returned
confirmIgnored(answer) == TRUE

\* if (confirm('Delete this ...?')): the dialog returns the user's answer
confirm(answer) == answer

\* the gateway calls a delete handler makes
GatewayCalls(fn, id, answer) ==
    IF confirm(answer) THEN <<[fn |-> fn, id |-> id]>> ELSE <<>>

\* the button deletes the current project; confirm() may be declined
DeleteProject ==
    /\ ~isLoading
    /\ current.found
    /\ \E confirmed \in BOOLEAN :
          LET projectId == current.value.id
          IN /\ last' = [op |-> "deleteProject", id |-> projectId,
                         confirmed |-> confirmed,
                         owned |-> Len(current.value.categories)
                                     + Len(current.value.payments),
                         gateway |-> GatewayCalls("db.deleteProject",
                                                  projectId, confirmed)]
             /\ IF confirm(confirmed)
                THEN /\ projects' = deleteProject(projects, projectId)
                     /\ selectedProject' =
                           selectionAfterDelete(projects, selectedProject, projectId)
                     /\ storage' = SaveOnChange(dbDeleteProject(storage, projectId),
                                                projects', isLoading)
                ELSE UNCHANGED <<projects, selectedProject, storage>>
    /\ UNCHANGED <<clock, isLoading, otherVars>>

DeleteCategory ==
    /\ ~isLoading
    /\ current.found
    /\ \E i \in DOMAIN current.value.categories, confirmed \in BOOLEAN :
          LET categoryId == current.value.categories[i].id
          IN /\ last' = [op |-> "deleteCategory", id |-> categoryId,
                         confirmed |-> confirmed,
                         payments |-> [p \in SelectedProjects |->
                                          projects[p].payments],
                         gateway |-> GatewayCalls("db.deleteCategory",
                                                  categoryId, confirmed)]
             /\ IF confirm(confirmed)
                THEN /\ projects' = deleteCategory(projects, selectedProject, categoryId)
                     /\ storage' = SaveOnChange(storage, projects', isLoading)
                ELSE UNCHANGED <<projects, storage>>
    /\ UNCHANGED <<selectedProject, clock, isLoading, otherVars>>

\* the allocations of the current project's categories that carry paymentId
AllocationsOf(projs, sel, paymentId) ==
    LET cur == currentProject(projs, sel)
    IN IF ~cur.found THEN {}
       ELSE {<<j, k>> \in (DOMAIN cur.value.categories) \X (1..(MaxCategories + MaxPayments + 2)) :
               /\ k \in DOMAIN cur.value.categories[j].allocations
               /\ cur.value.categories[j].allocations[k].paymentId = Num(paymentId)}

DeletePayment ==
    /\ ~isLoading
    /\ current.found
    /\ \E i \in DOMAIN current.value.payments, confirmed \in BOOLEAN :
          LET paymentId == current.value.payments[i].id
          IN /\ last' = [op |-> "deletePayment", id |-> paymentId,
                         confirmed |-> confirmed,
                         held |-> Cardinality(AllocationsOf(projects,
                                      selectedProject, paymentId)),
                         gateway |-> GatewayCalls("db.deletePayment",
                                                  paymentId, confirmed)]
             /\ IF confirm(confirmed)
                THEN /\ projects' = deletePayment(projects, selectedProject, paymentId)
                     /\ storage' = SaveOnChange(storage, projects', isLoading)
                ELSE UNCHANGED <<projects, storage>>
    /\ UNCHANGED <<selectedProject, clock, isLoading, otherVars>>

DeleteExpense ==
    /\ ~isLoading
    /\ current.found
    /\ \E i \in DOMAIN current.value.categories :
          \E k \in DOMAIN current.value.categories[i].expenses :
             LET categoryId == current.value.categories[i].id
                 expenseId == current.value.categories[i].expenses[k].id
             IN /\ projects' = deleteExpense(projects, selectedProject,
                                             categoryId, expenseId)
                /\ last' = [op |-> "deleteExpense", id |-> expenseId,
                            categoryId |-> categoryId]
    /\ storage' = SaveOnChange(storage, projects', isLoading)
    /\ UNCHANGED <<selectedProject, clock, isLoading, otherVars>>

Next ==
    \/ LoadData
    \/ Tick
    \/ SelectProject
    \/ AddProject
    \/ AddCategory
    \/ AddPayment
    \/ AddExpense
    \/ DeleteProject
    \/ DeleteCategory
    \/ DeletePayment
    \/ DeleteExpense

Spec == Init /\ [][Next]_vars

HoldsAllocationOf(cat, paymentId) ==
    \E k \in DOMAIN cat.allocations : cat.allocations[k].paymentId = Num(paymentId)

\* C1: after a confirmed deletePayment(P.id) on the selected project, P is
\* absent from that project's payment sequence and no category of the project
\* holds an allocation whose paymentId is P.id.
C1_DeletePaymentRemovesAllocations ==
    (last.op = "deletePayment" /\ last.confirmed) =>
        \A i \in SelectedProjects :
           /\ \A j \in DOMAIN projects[i].payments :
                 projects[i].payments[j].id # last.id
           /\ \A j \in DOMAIN projects[i].categories :
                 ~HoldsAllocationOf(projects[i].categories[j], last.id)

C1_Witness ==
    /\ last.op = "deletePayment" /\ last.confirmed
    /\ last.held > 0
    /\ SelectedProjects # {}
    /\ \A i \in SelectedProjects : projects[i].categories # <<>>

\* C2: in every state reached from the empty project list by the handlers,
\* every allocation a category holds carries the id of a payment that is in
\* the same project's payment sequence.
C2_NoDanglingAllocation ==
    \A i \in DOMAIN projects :
       \A j \in DOMAIN projects[i].categories :
          \A k \in DOMAIN projects[i].categories[j].allocations :
             \E q \in DOMAIN projects[i].payments :
                Num(projects[i].payments[q].id)
                  = projects[i].categories[j].allocations[k].paymentId

C2_Witness ==
    /\ last.op = "deleteCategory" /\ last.confirmed
    /\ \E i \in DOMAIN projects :
          /\ projects[i].payments # <<>>
          /\ \E j \in DOMAIN projects[i].categories :
                projects[i].categories[j].allocations # <<>>

\* C3: after addPayment the embedded and the distributed copy of the
\* payment's allocations are in sync: a category of the selected project
\* holds an allocation carrying the new paymentId exactly when the payment's
\* embedded list holds an entry for that categoryId, and the two entries
\* carry identical amount, laborAmount and materialsAmount and the payment's
\* date.
C3_CopiesInSync ==
    last.op = "addPayment" =>
        \A i \in SelectedProjects :
           \A q \in DOMAIN projects[i].payments :
              projects[i].payments[q].id = last.id =>
                 LET pay == projects[i].payments[q]
                 IN \A j \in DOMAIN projects[i].categories :
                       LET cat == projects[i].categories[j]
                           Embedded == {e \in DOMAIN pay.allocations :
                                          pay.allocations[e].categoryId = Num(cat.id)}
                           Distributed == {k \in DOMAIN cat.allocations :
                                             cat.allocations[k].paymentId = Num(last.id)}
                       IN /\ (Distributed # {}) <=> (Embedded # {})
                          /\ \A e \in Embedded, k \in Distributed :
                                /\ pay.allocations[e].amount = cat.allocations[k].amount
                                /\ pay.allocations[e].laborAmount
                                     = cat.allocations[k].laborAmount
                                /\ pay.allocations[e].materialsAmount
                                     = cat.allocations[k].materialsAmount
                                /\ cat.allocations[k].date = pay.date
                                /\ pay.allocations[e].date = pay.date

\* the amount a text field stands for: its numeral, or 0 when it spells none
AmountOfText(text) ==
    IF text.s \in {"0", "1", "2", "3", "4", "5", "6", "7", "8", "9"}
    THEN Num(CHOOSE n \in 0..9 : ToString(n) = text.s)
    ELSE Num(0)

WellFormedCategory(c) ==
    \/ /\ c.mode = Str("all-inclusive")
       /\ IsNum(c.totalBudget) /\ IsNum(c.totalCost)
       /\ c.laborBudget = Null /\ c.laborCost = Null /\ c.materialsBudget = Null
    \/ /\ c.mode = Str("separate")
       /\ IsNum(c.laborBudget) /\ IsNum(c.laborCost) /\ IsNum(c.materialsBudget)
       /\ c.totalBudget = Null /\ c.totalCost = Null

\* the category the last addCategory appended to the selected project
AddedCategories ==
    {projects[i].categories[Len(projects[i].categories)] : i \in SelectedProjects}

\* C11: every category has mode 'all-inclusive' or 'separate' and exactly the
\* field-group of its mode populated with numbers, the other group null; the
\* category addCategory appends holds the submitted amounts (unparsable or
\* empty text as 0) and empty allocation and expense sequences.
C11_ModeFieldGroups ==
    /\ \A i \in DOMAIN projects :
          \A j \in DOMAIN projects[i].categories :
             WellFormedCategory(projects[i].categories[j])
    /\ last.op = "addCategory" =>
          \A c \in AddedCategories :
             /\ c.id = last.id
             /\ c.mode = last.form.mode
             /\ c.allocations = <<>> /\ c.expenses = <<>>
             /\ c.mode = Str("all-inclusive") =>
                   /\ c.totalBudget = AmountOfText(last.form.totalBudget)
                   /\ c.totalCost = AmountOfText(last.form.totalCost)
             /\ c.mode = Str("separate") =>
                   /\ c.laborBudget = AmountOfText(last.form.laborBudget)
                   /\ c.laborCost = AmountOfText(last.form.laborCost)
                   /\ c.materialsBudget = AmountOfText(last.form.materialsBudget)

C11_Witness ==
    /\ last.op = "addCategory"
    /\ last.form.totalBudget = Str("") /\ last.form.totalCost = Str("x")
    /\ \E i \in SelectedProjects :
          /\ Len(projects[i].categories) = 2
          /\ projects[i].categories[1].mode = Str("separate")
          /\ projects[i].categories[1].laborCost = Num(0)
          /\ projects[i].categories[2].totalBudget = Num(0)

\* the entries the payments of a project embed for a category id
EmbeddedEntriesFor(project, categoryId) ==
    {<<q, e>> \in (DOMAIN project.payments) \X (1..(MaxCategories + 1)) :
        /\ e \in DOMAIN project.payments[q].allocations
        /\ project.payments[q].allocations[e].categoryId = Num(categoryId)}

\* C12: a confirmed deleteCategory(C) removes C (with the allocations and
\* expenses it holds) from the selected project and leaves the project's
\* payment sequence as it was, embedded entries naming C included; the
\* category of such an entry is then not found and its name shows 'Unknown'.
C12_DeleteCategoryKeepsPayments ==
    (last.op = "deleteCategory" /\ last.confirmed) =>
        \A i \in SelectedProjects :
           /\ \A j \in DOMAIN projects[i].categories :
                 projects[i].categories[j].id # last.id
           /\ projects[i].payments = last.payments[i]
           /\ \A x \in EmbeddedEntriesFor(projects[i], last.id) :
                 LET alloc == projects[i].payments[x[1]].allocations[x[2]]
                 IN /\ ~allocationCategory(projects[i], alloc).found
                    /\ allocationCategoryName(projects[i], alloc) = Str("Unknown")

C12_Witness ==
    /\ last.op = "deleteCategory" /\ last.confirmed
    /\ \E i \in SelectedProjects :
          /\ EmbeddedEntriesFor(projects[i], last.id) # {}
          /\ projects[i].categories # <<>>

\* C13: an expense's type is recorded only when its owning category is in
\* separate mode: every expense an all-inclusive category holds has type
\* null, whatever type the add-expense request carried.
C13_TypeOnlyInSeparateMode ==
    \A i \in DOMAIN projects :
       \A j \in DOMAIN projects[i].categories :
          projects[i].categories[j].mode = Str("all-inclusive") =>
             \A k \in DOMAIN projects[i].categories[j].expenses :
                projects[i].categories[j].expenses[k].type = Null

(***************************************************************************)
(* The handlers with a Supabase client configured: the gateway answers     *)
(* later.  A handler captures the `projects` and `selectedProject` of the  *)
(* render that created it, reads Date.now(), awaits the gateway, and then  *)
(* hands setProjects a value computed from what it captured.               *)
(***************************************************************************)
MaxPending == 2
MaxInvocations == 4

\* a handler invoked now: its arguments and the closure it runs in
Invocation(op, args) ==
    [op |-> op, args |-> args, id |-> clock,
     projects |-> projects, selectedProject |-> selectedProject]

\* the value the handler hands to setProjects, from the list it works on
setProjectsArgument(h, projs, sel) ==
    CASE h.op = "addProject" -> addProject(projs, h.id)
      [] h.op = "addCategory" -> addCategory(projs, sel, h.args.categoryData, h.id)
      [] h.op = "addPayment" -> addPayment(projs, sel, h.args.paymentData, h.id)
      [] h.op = "addExpense" -> addExpense(projs, sel, h.args.expenseData, h.id)
      [] h.op = "deleteProject" -> deleteProject(projs, h.args.projectId)
      [] h.op = "deleteCategory" -> deleteCategory(projs, sel, h.args.categoryId)
      [] h.op = "deletePayment" -> deletePayment(projs, sel, h.args.paymentId)
      [] h.op = "deleteExpense" ->
            deleteExpense(projs, sel, h.args.categoryId, h.args.expenseId)

\* the page after loadData found no projects
InitAsync ==
    /\ projects = <<>>
    /\ selectedProject = Null
    /\ isLoading = FALSE
    /\ clock = 1
    /\ last = NoOp
    /\ storage = NoItem
    /\ aggIn = NoCall /\ aggOut = NoCall
    /\ doc = EmptyDocument /\ data = EmptyDocument /\ returned = <<>>
    /\ saved = NoProject /\ loaded = NotLoaded
    /\ pending = <<>>

\* each invocation reads a later Date.now() than the one before it
Begin(op, args) ==
    /\ Len(pending) < MaxPending
    /\ clock <= MaxInvocations
    /\ pending' = Append(pending, Invocation(op, args))
    /\ clock' = clock + 1
    /\ UNCHANGED <<projects, selectedProject, isLoading, last, storage,
                   aggVars, migVars, storeVars>>

BeginAddProject ==
    /\ Len(projects) < MaxProjects
    /\ Begin("addProject", [none |-> TRUE])

BeginAddCategory ==
    /\ current.found
    /\ CountCategories(projects) < MaxCategories
    /\ \E form \in CategoryForms :
          Begin("addCategory", [categoryData |-> NewCategoryFormSubmit(form)])

BeginAddPayment ==
    /\ current.found
    /\ Len(current.value.categories) > 0
    /\ CountPayments(projects) < MaxPayments
    /\ LET cats == current.value.categories
       IN \E allocations \in [DOMAIN cats -> UNION {AmountInputs(cats[i]) : i \in DOMAIN cats}] :
             /\ \A i \in DOMAIN cats : allocations[i] \in AmountInputs(cats[i])
             /\ LET form == [paymentMethod |-> Str("check"), reference |-> Str(""),
                             totalAmount |-> TextOf(allocatedTotal(allocations).n),
                             date |-> Date1, allocations |-> allocations]
                IN Begin("addPayment",
                         [paymentData |-> NewPaymentFormSubmit(cats, form)])

BeginAddExpense ==
    /\ current.found
    /\ CountExpenses(projects) < MaxExpenses
    /\ \E i \in DOMAIN current.value.categories :
          \E expenseType \in {"labor", "materials"} :
             LET form == [categoryId |-> current.value.categories[i].id,
                          amount |-> Str("1"), date |-> Date1,
                          expenseType |-> Str(expenseType),
                          paymentMethod |-> Str(""), reference |-> Str("")]
             IN Begin("addExpense",
                      [expenseData |->
                         NewExpenseFormSubmit(current.value.categories, form)])

\* the delete handlers, confirm() answered yes
BeginDeleteProject ==
    /\ current.found
    /\ Begin("deleteProject", [projectId |-> current.value.id])

BeginDeleteCategory ==
    /\ current.found
    /\ \E i \in DOMAIN current.value.categories :
          Begin("deleteCategory", [categoryId |-> current.value.categories[i].id])

BeginDeletePayment ==
    /\ current.found
    /\ \E i \in DOMAIN current.value.payments :
          Begin("deletePayment", [paymentId |-> current.value.payments[i].id])

BeginDeleteExpense ==
    /\ current.found
    /\ \E i \in DOMAIN current.value.categories :
          \E k \in DOMAIN current.value.categories[i].expenses :
             Begin("deleteExpense",
                   [categoryId |-> current.value.categories[i].id,
                    expenseId |-> current.value.categories[i].expenses[k].id])

\* what the gateway call resolved to: the saved row / true, or null / false
\* after an error it logged
GatewayAnswers == {"done", "failed"}

\* a handler that gives up when the gateway reports a failure
setProjectsUnlessFailed(h, answer) ==
    IF answer = "failed" THEN projects
    ELSE setProjectsArgument(h, h.projects, h.selectedProject)

\* the list the handler sets after its await; the answer is not read
setProjectsAfterAwait(h, answer) ==
    setProjectsArgument(h, h.projects, h.selectedProject)

\* the gateway answered the k-th outstanding call: the rest of its handler
Finish ==
    \E k \in DOMAIN pending, answer \in GatewayAnswers :
       LET h == pending[k]
       IN /\ projects' = setProjectsAfterAwait(h, answer)
          /\ selectedProject' =
                CASE h.op = "addProject" -> Num(h.id)
                  [] h.op = "deleteProject"
                       /\ h.selectedProject = Num(h.args.projectId) ->
                          selectionAfterDelete(h.projects, h.selectedProject,
                                               h.args.projectId)
                  [] OTHER -> selectedProject
          /\ storage' = SaveOnChange(storage, projects', isLoading)
          /\ pending' = [j \in 1..(Len(pending) - 1) |->
                            IF j < k THEN pending[j] ELSE pending[j + 1]]
          /\ last' = [op |-> "finish", handler |-> h.op, id |-> h.id,
                      args |-> h.args, selectedProject |-> h.selectedProject,
                      answer |-> answer,
                      onCurrent |-> setProjectsArgument(h, projects, selectedProject)]
          /\ UNCHANGED <<clock, isLoading, aggVars, migVars, storeVars>>

NextAsync ==
    \/ BeginAddProject
    \/ BeginAddCategory
    \/ BeginAddPayment
    \/ BeginAddExpense
    \/ BeginDeleteProject
    \/ BeginDeleteCategory
    \/ BeginDeletePayment
    \/ BeginDeleteExpense
    \/ Finish

SpecAsync == InitAsync /\ [][NextAsync]_vars

\* C14: mutations are serialized: a handler that ran while another was
\* awaiting the gateway is not applied on a stale snapshot of the project
\* list; when it finishes, the list is the one its mutation gives on the
\* list as it then stood, so the effect of both mutations is there.
C14_NoLostUpdate ==
    last.op = "finish" => projects = last.onCurrent

DistinctIds(seq) ==
    \A a, b \in DOMAIN seq : a # b => seq[a].id # seq[b].id

\* C15: identifiers are unique within their collection: no two projects
\* share an id, nor two categories of a project, nor two payments of a
\* project, nor two expenses of a category.
C15_UniqueIds ==
    /\ DistinctIds(projects)
    /\ \A i \in DOMAIN projects :
          /\ DistinctIds(projects[i].categories)
          /\ DistinctIds(projects[i].payments)
          /\ \A j \in DOMAIN projects[i].categories :
                DistinctIds(projects[i].categories[j].expenses)

ConfirmedDeletes == {"deleteProject", "deleteCategory", "deletePayment"}

\* C16: deleting a project, category or payment takes effect only after
\* confirmation: when the dialog is declined the handler calls no gateway
\* delete and leaves the project list, the selection and the stored
\* document as they were.
C16_DeclinedDeleteChangesNothing ==
    [][(last'.op \in ConfirmedDeletes /\ ~last'.confirmed) =>
          /\ last'.gateway = <<>>
          /\ projects' = projects
          /\ selectedProject' = selectedProject
          /\ storage' = storage]_vars

C16_Witness ==
    /\ last.op = "deletePayment" /\ ~last.confirmed
    /\ last.held > 0
    /\ \E i \in SelectedProjects :
          \E q \in DOMAIN projects[i].payments : projects[i].payments[q].id = last.id

\* the positions of the projects whose id is not `id`, and the k-th of them
OtherProjects(projs, id) == {i \in DOMAIN projs : projs[i].id # id}
NthOther(projs, id, k) ==
    CHOOSE i \in OtherProjects(projs, id) :
       Cardinality({j \in OtherProjects(projs, id) : j <= i}) = k

\* C17: a confirmed deleteProject(id) removes the project with that id, with
\* every category, payment, allocation and expense it owns, from the project
\* list and leaves every other project as it was, in the same order.
C17_DeleteProjectCascades ==
    [][(last'.op = "deleteProject" /\ last'.confirmed) =>
          /\ \A i \in DOMAIN projects' : projects'[i].id # last'.id
          /\ Len(projects') = Cardinality(OtherProjects(projects, last'.id))
          /\ \A k \in DOMAIN projects' :
                projects'[k] = projects[NthOther(projects, last'.id, k)]]_vars

C17_Witness ==
    /\ last.op = "deleteProject" /\ last.confirmed
    /\ last.owned > 0
    /\ \E i \in DOMAIN projects : projects[i].categories # <<>>

\* C18: every document a writer leaves in the local store (the write-back of
\* db.getProjects, db.saveProject, db.deleteProject, the save-on-change
\* effect) is an object with an integer schemaVersion and a projects array.
C18_StoredDocumentShape ==
    storage.present =>
       /\ IsNum(storage.data.schemaVersion)
       /\ DOMAIN storage.data.projects = 1..Len(storage.data.projects)

\* C19: migrateData is pure: after the call the document object passed to it
\* has the projects and the schemaVersion it had before the call.
C19_MigrateDataPure ==
    Len(returned) >= 1 =>
       /\ data.projects = doc.projects
       /\ data.schemaVersion = doc.schemaVersion

\* categories that agree with c on every labor figure: another materials
\* budget, other materials amounts in the allocations, other materials
\* expenses
MaterialsVariants(c) ==
    {[c EXCEPT !.materialsBudget = mb,
               !.allocations = [k \in DOMAIN @ |->
                                   [@[k] EXCEPT !.materialsAmount = m]],
               !.expenses =
                  IF x = 0
                  THEN SelectSeq(@, LAMBDA e : e.type # Str("materials"))
                  ELSE Append(@, Expense(9, Num(x), Str("materials")))] :
        mb \in {Null, Num(0), Num(3)},
        m \in {Null, Num(2), Num(MaxAmount)},
        x \in {0, 1, MaxAmount}}

HealthCounts(totals) == <<totals.green, totals.yellow, totals.red>>

\* C20: in a separate-mode category the health classification depends on
\* the labor figures only: categories that agree on laborBudget, laborCost,
\* allocation laborAmounts and labor expenses get the same laborWarningLevel
\* and the same colour in the project health counts, whatever their
\* materialsBudget, allocation materialsAmounts and materials expenses.
C20_HealthFromLaborOnly ==
    /\ (aggOut.fn = "getCategoryTotals" /\ aggIn.category.mode = Str("separate")) =>
          \A v \in MaterialsVariants(aggIn.category) :
             getCategoryTotals(v).laborWarningLevel = aggOut.value.laborWarningLevel
    /\ (aggOut.fn = "getProjectTotals" /\ selectedProject = Num(1)) =>
          \A j \in DOMAIN projects[1].categories :
             projects[1].categories[j].mode = Str("separate") =>
                \A v \in MaterialsVariants(projects[1].categories[j]) :
                   HealthCounts(getProjectTotals(
                       <<[projects[1] EXCEPT !.categories[j] = v]>>, Num(1)))
                     = HealthCounts(aggOut.value)

C20_Witness ==
    /\ aggOut.fn = "getCategoryTotals"
    /\ aggIn.category.mode = Str("separate")
    /\ aggOut.value.laborWarningLevel = "yellow"
    /\ \E v \in MaterialsVariants(aggIn.category) :
          /\ getCategoryTotals(v).materialsRemainingToPay
                # aggOut.value.materialsRemainingToPay
          /\ getCategoryTotals(v).materialsCollected
                # aggOut.value.materialsCollected

(***************************************************************************)
(* addPayment on drawn payment forms: a project with one all-inclusive and *)
(* one separate category, every field of the form empty, zero, positive or *)
(* negative, the total entered equal to the sum allocated (the submit      *)
(* button is disabled otherwise).                                          *)
(***************************************************************************)
PaymentFormCategories ==
    <<Category(1, Str("all-inclusive"), <<Num(MaxAmount), Num(2)>>,
               <<Undef, Undef>>, <<Null, Null, Null>>, <<>>, <<>>),
      Category(2, Str("separate"), <<Null, Null>>, <<Undef, Undef>>,
               <<Num(MaxAmount), Num(2), Num(3)>>, <<>>, <<>>)>>

PaymentForms ==
    {[paymentMethod |-> Str("check"), reference |-> Str(""),
      totalAmount |-> TextOf(allocatedTotal(al).n), date |-> Date1,
      allocations |-> al] :
        al \in {<<[amount |-> Str(a), laborAmount |-> Str(""),
                   materialsAmount |-> Str("")],
                  [amount |-> Str(""), laborAmount |-> Str(l),
                   materialsAmount |-> Str(m)]>> :
                  a \in {"", "0", "1", "-1"}, l \in {"", "0", "1", "-1"},
                  m \in {"", "0", "2", "-1"}}}

InitPay ==
    /\ projects = <<Project(1, PaymentFormCategories, <<>>),
                    Project(2, PaymentFormCategories, <<>>)>>
    /\ selectedProject = Num(1)
    /\ isLoading = FALSE
    /\ clock = 3
    /\ last = NoOp
    /\ storage = NoItem
    /\ aggOut = NoCall
    /\ \E form \in PaymentForms : aggIn = [fn |-> "addPayment", form |-> form]
    /\ doc = EmptyDocument /\ data = EmptyDocument /\ returned = <<>>
    /\ saved = NoProject /\ loaded = NotLoaded
    /\ pending = <<>>

CallAddPayment ==
    /\ aggIn.fn = "addPayment"
    /\ aggOut = NoCall
    /\ LET paymentData == NewPaymentFormSubmit(current.value.categories, aggIn.form)
       IN /\ projects' = addPayment(projects, selectedProject, paymentData, clock)
          /\ aggOut' = [fn |-> "addPayment", paymentData |-> paymentData]
          /\ last' = [op |-> "addPayment", id |-> clock]
    /\ storage' = SaveOnChange(storage, projects', isLoading)
    /\ UNCHANGED <<selectedProject, clock, isLoading, migVars, storeVars,
                   asyncVars, aggIn>>

NextPay == CallAddPayment

SpecPay == InitPay /\ [][NextPay]_vars

\* amount fields as plain integers: 0 when absent
NonZeroRequest(a) ==
    NumberOr0(a.amount) # 0 \/ NumberOr0(a.laborAmount) # 0
       \/ NumberOr0(a.materialsAmount) # 0

PositiveRequest(a) ==
    NumberOr0(a.amount) > 0 \/ NumberOr0(a.laborAmount) > 0
       \/ NumberOr0(a.materialsAmount) > 0

\* the request made for a category, and what the category received
RequestFor(cat) ==
    CHOOSE k \in DOMAIN aggOut.paymentData.allocations :
       aggOut.paymentData.allocations[k].categoryId = Num(cat.id)

\* C21 as stated: addPayment embeds in the new payment exactly the requests
\* with an amount field that is neither zero nor absent, in request order,
\* and a request with every amount zero or absent is neither embedded nor
\* appended to a category.
C21_EmbedsNonZeroRequests ==
    aggOut.fn = "addPayment" =>
       /\ projects[1].payments[1].allocations
             = SelectSeq(aggOut.paymentData.allocations, NonZeroRequest)
       /\ \A j \in DOMAIN projects[1].categories :
             ~NonZeroRequest(aggOut.paymentData.allocations[
                               RequestFor(projects[1].categories[j])])
                => projects[1].categories[j].allocations = <<>>

\* C21 amended: addPayment embeds exactly the requests with an amount field
\* greater than zero, in request order; a request with no amount above zero
\* (all zero, absent or negative) is neither embedded nor appended to a
\* category, and a request with one is appended to its category once.
C21_EmbedsPositiveRequests ==
    aggOut.fn = "addPayment" =>
       /\ Len(projects[1].payments) = 1
       /\ projects[1].payments[1].allocations
             = SelectSeq(aggOut.paymentData.allocations, PositiveRequest)
       /\ \A j \in DOMAIN projects[1].categories :
             Len(projects[1].categories[j].allocations)
               = IF PositiveRequest(aggOut.paymentData.allocations[
                                      RequestFor(projects[1].categories[j])])
                 THEN 1 ELSE 0

C21_Witness ==
    /\ aggOut.fn = "addPayment"
    /\ Len(projects[1].payments[1].allocations) = 1
    /\ aggOut.paymentData.allocations[1].amount = Num(-1)
    /\ aggOut.paymentData.allocations[2].laborAmount = Num(0)
    /\ aggOut.paymentData.allocations[2].materialsAmount = Num(2)
    /\ projects[1].categories[1].allocations = <<>>
    /\ Len(projects[1].categories[2].allocations) = 1

(***************************************************************************)
(* The fields migrateData writes.                                          *)
(***************************************************************************)
Present(v) == v # Null /\ v # Undef

FirstPresent(a, b, default) ==
    IF Present(a) THEN a ELSE IF Present(b) THEN b ELSE default

\* the first migration of a document of the first schema has been returned
MigratedFirstSchema == Len(returned) >= 1 /\ FirstSchema(doc)

\* C22: for every category of a version-1 document migrateData sets mode to
\* 'all-inclusive', totalBudget to clientBudget if present, else the existing
\* totalBudget, else 0, totalCost to yourCost if present, else the existing
\* totalCost, else 0, and laborBudget, laborCost and materialsBudget to null;
\* an allocation whose amount is absent or null gets amount 0 (any other
\* amount is kept), and every expense keeps its amount.
C22_CategoryMigration ==
    MigratedFirstSchema =>
       \A i \in DOMAIN doc.projects :
          \A j \in DOMAIN doc.projects[i].categories :
             LET cat == doc.projects[i].categories[j]
                 out == returned[1].projects[i].categories[j]
             IN /\ out.mode = Str("all-inclusive")
                /\ out.totalBudget
                     = FirstPresent(cat.clientBudget, cat.totalBudget, Num(0))
                /\ out.totalCost
                     = FirstPresent(cat.yourCost, cat.totalCost, Num(0))
                /\ out.laborBudget = Null
                /\ out.laborCost = Null
                /\ out.materialsBudget = Null
                /\ Len(out.allocations) = Len(cat.allocations)
                /\ \A k \in DOMAIN cat.allocations :
                      out.allocations[k].amount
                        = IF Present(cat.allocations[k].amount)
                          THEN cat.allocations[k].amount ELSE Num(0)
                /\ Len(out.expenses) = Len(cat.expenses)
                /\ \A k \in DOMAIN cat.expenses :
                      out.expenses[k].amount = cat.expenses[k].amount

C22_Witness ==
    /\ MigratedFirstSchema
    /\ Len(doc.projects) = 2
    /\ doc.projects[1].categories[1].expenses # <<>>
    /\ Len(doc.projects[2].categories) = 2
    /\ LET cats == doc.projects[2].categories
           outs == returned[1].projects[2].categories
       IN /\ cats[1].clientBudget = Num(0) /\ cats[1].totalBudget = Num(2)
          /\ cats[1].yourCost = Null /\ cats[1].totalCost = Num(1)
          /\ outs[1].totalBudget = Num(0) /\ outs[1].totalCost = Num(1)
          /\ Len(cats[2].allocations) = 2
          /\ cats[2].allocations[1].amount = Undef
          /\ cats[2].allocations[2].amount = Null
          /\ outs[2].allocations[1].amount = Num(0)
          /\ outs[2].allocations[2].amount = Num(0)

\* C23: for every payment of a version-1 document migrateData sets
\* paymentMethod to 'check' when absent, and reference to the payment's own
\* reference whenever that is not null or absent (an empty-string reference
\* is kept), otherwise to checkNumber when that is not null or absent,
\* otherwise to the empty string.
C23_PaymentMigration ==
    MigratedFirstSchema =>
       \A i \in DOMAIN doc.projects :
          \A j \in DOMAIN doc.projects[i].payments :
             LET pay == doc.projects[i].payments[j]
                 out == returned[1].projects[i].payments[j]
             IN /\ ~Present(pay.paymentMethod)
                     => out.paymentMethod = Str("check")
                /\ out.reference
                     = FirstPresent(pay.reference, pay.checkNumber, Str(""))

(***************************************************************************)
(* The handlers and the gateway's answer.                                  *)
(***************************************************************************)
\* the change of the handler just finished is in the project list
ChangeApplied ==
    LET mine == {i \in DOMAIN projects :
                    Num(projects[i].id) = last.selectedProject}
        myCategories ==
           {<<i, j>> \in mine \X (1..MaxCategories) :
               j \in DOMAIN projects[i].categories}
    IN CASE last.handler = "addProject" ->
               \E i \in DOMAIN projects : projects[i].id = last.id
         [] last.handler = "addCategory" ->
               \E c \in myCategories :
                  projects[c[1]].categories[c[2]].id = last.id
         [] last.handler = "addPayment" ->
               \E i \in mine : \E k \in DOMAIN projects[i].payments :
                  projects[i].payments[k].id = last.id
         [] last.handler = "addExpense" ->
               \E c \in myCategories :
                  \E k \in DOMAIN projects[c[1]].categories[c[2]].expenses :
                     projects[c[1]].categories[c[2]].expenses[k].id = last.id
         [] last.handler = "deleteProject" ->
               \A i \in DOMAIN projects : projects[i].id # last.args.projectId
         [] last.handler = "deleteCategory" ->
               \A c \in myCategories :
                  projects[c[1]].categories[c[2]].id # last.args.categoryId
         [] last.handler = "deletePayment" ->
               \A i \in mine : \A k \in DOMAIN projects[i].payments :
                  projects[i].payments[k].id # last.args.paymentId
         [] last.handler = "deleteExpense" ->
               \A c \in myCategories :
                  projects[c[1]].categories[c[2]].id = last.args.categoryId =>
                     \A k \in DOMAIN projects[c[1]].categories[c[2]].expenses :
                        projects[c[1]].categories[c[2]].expenses[k].id
                           # last.args.expenseId

\* C24: the in-memory graph is updated whatever the persistence outcome:
\* when the gateway save or delete reports failure, the add or delete
\* handler that called it still applies its change to the project list, and
\* the list changes only when a gateway call returns, never while the
\* handler is still awaiting it.
C24_AppliedWhateverTheAnswer ==
    [][/\ (last'.op = "finish" /\ last'.answer = "failed") => ChangeApplied'
       /\ projects' # projects => Len(pending') = Len(pending) - 1]_vars

C24_Witness ==
    /\ last.op = "finish"
    /\ last.answer = "failed"
    /\ last.handler = "addCategory"
    /\ pending # <<>>
    /\ \E i \in DOMAIN projects : \E j \in DOMAIN projects[i].categories :
          projects[i].categories[j].id = last.id

(***************************************************************************)
(* The expense handlers' frame.                                            *)
(***************************************************************************)
WithoutExpense(expenses, expenseId) ==
    LET Other(e) == e.id # expenseId IN SelectSeq(expenses, Other)

\* C25: addExpense and deleteExpense are scoped to one category: the step
\* changes only the expense sequence of the category with the given id in
\* the selected project (the new expense appended, or the expense with the
\* given id removed); that category's allocations and budgets, every other
\* category, the project's payments and every other project are unchanged.
C25_ExpenseScopedToOneCategory ==
    [][(AddExpense \/ DeleteExpense) =>
         \E i \in DOMAIN projects : \E j \in DOMAIN projects[i].categories :
            /\ Num(projects[i].id) = selectedProject
            /\ projects[i].categories[j].id = last'.categoryId
            /\ Len(projects') = Len(projects)
            /\ Len(projects'[i].categories) = Len(projects[i].categories)
            /\ LET old == projects[i].categories[j].expenses
                   new == projects'[i].categories[j].expenses
               IN /\ IF last'.op = "addExpense"
                     THEN /\ Len(new) = Len(old) + 1
                          /\ SubSeq(new, 1, Len(old)) = old
                          /\ new[Len(new)].id = last'.id
                     ELSE new = WithoutExpense(old, last'.id)
                  /\ projects' = [projects EXCEPT
                                    ![i].categories[j].expenses = new]]_vars

(***************************************************************************)
(* Reloading the page in local-storage mode.                               *)
(***************************************************************************)
Amounts(c) ==
    <<[k \in DOMAIN c.allocations |->
          <<c.allocations[k].amount, c.allocations[k].laborAmount,
            c.allocations[k].materialsAmount>>],
      [k \in DOMAIN c.expenses |-> c.expenses[k].amount]>>

\* what db.getProjects would return now
Reloaded == dbGetProjects(storage).projects

\* C26: in local-storage mode, after any sequence of completed mutations
\* that leaves at least one project, a reload (db.getProjects reading the
\* stored document) returns projects whose categories have the same mode,
\* totalBudget, totalCost, laborBudget, laborCost and materialsBudget, and
\* the same allocation and expense amounts, as the in-memory projects.
C26_ReloadKeepsCategories ==
    (~isLoading /\ Len(projects) > 0) =>
       /\ Len(Reloaded) = Len(projects)
       /\ \A i \in DOMAIN projects :
             /\ Len(Reloaded[i].categories) = Len(projects[i].categories)
             /\ \A j \in DOMAIN projects[i].categories :
                   /\ BudgetFields(Reloaded[i].categories[j])
                        = BudgetFields(projects[i].categories[j])
                   /\ Amounts(Reloaded[i].categories[j])
                        = Amounts(projects[i].categories[j])

(***************************************************************************)
(* The aggregator before and after migration.                              *)
(***************************************************************************)
Figures ==
    {"budget", "cost", "collected", "paid", "remainingToCollect",
     "remainingToPay", "buffer", "warningLevel"}

\* both results have the figure and agree on it, or neither has it
SameFigure(a, b, f) ==
    /\ (f \in DOMAIN a) = (f \in DOMAIN b)
    /\ (f \in DOMAIN a /\ f \in DOMAIN b) => a[f] = b[f]

\* C27: migration preserves the computed figures: for every category of a
\* document whose schemaVersion is absent or 1, getCategoryTotals of the
\* migrated category returns the same budget, cost, collected, paid,
\* remainingToCollect, remainingToPay, buffer and warningLevel as
\* getCategoryTotals of the same category before migration.
C27_MigrationKeepsFigures ==
    MigratedFirstSchema =>
       \A i \in DOMAIN doc.projects :
          \A j \in DOMAIN doc.projects[i].categories :
             \A f \in Figures :
                SameFigure(getCategoryTotals(doc.projects[i].categories[j]),
                           getCategoryTotals(returned[1].projects[i].categories[j]),
                           f)

(***************************************************************************)
(* The selection.                                                          *)
(***************************************************************************)
SelectsAProject ==
    \E i \in DOMAIN projects : Num(projects[i].id) = selectedProject

\* C28: in every state reached through load, addProject, project selection
\* and deleteProject the selected project id is either null or the id of a
\* project in the project list; after deleting the selected project the
\* selection is a remaining project when one exists and null otherwise.
C28_SelectionValid ==
    /\ selectedProject = Null \/ SelectsAProject
    /\ (last.op = "deleteProject" /\ last.confirmed) =>
          IF projects # <<>> THEN SelectsAProject ELSE selectedProject = Null

(***************************************************************************)
(* addExpense on drawn all-inclusive categories: every budget and cost up  *)
(* to MaxAmount, with or without money collected and paid so far, and a    *)
(* positive amount in the expense form.                                    *)
(***************************************************************************)
ExpenseFormCategories ==
    {Category(1, Str("all-inclusive"), <<Num(b), Num(c)>>, <<Undef, Undef>>,
              <<Null, Null, Null>>, al, ex) :
        b \in 0..MaxAmount, c \in 0..MaxAmount,
        al \in {<<>>, <<Allocation(Undef, Num(1), Num(2), Null, Null, Date1)>>},
        ex \in {<<>>, <<Expense(1, Num(1), Null)>>}}

ExpenseForms ==
    {[categoryId |-> 1, amount |-> Str(a), date |-> Date1,
      expenseType |-> Str("labor"), paymentMethod |-> Str(""),
      reference |-> Str("")] : a \in {"1", "2", "3"}}

InitExp ==
    /\ \E cat \in ExpenseFormCategories, form \in ExpenseForms :
          /\ projects = <<Project(1, <<cat>>, <<>>)>>
          /\ aggIn = [fn |-> "addExpense", form |-> form, category |-> cat]
    /\ selectedProject = Num(1)
    /\ isLoading = FALSE
    /\ clock = 3
    /\ last = NoOp
    /\ storage = NoItem
    /\ aggOut = NoCall
    /\ doc = EmptyDocument /\ data = EmptyDocument /\ returned = <<>>
    /\ saved = NoProject /\ loaded = NotLoaded
    /\ pending = <<>>

CallAddExpense ==
    /\ aggIn.fn = "addExpense"
    /\ aggOut = NoCall
    /\ LET expenseData == NewExpenseFormSubmit(current.value.categories, aggIn.form)
       IN /\ projects' = addExpense(projects, selectedProject, expenseData, clock)
          /\ aggOut' = [fn |-> "addExpense", expenseData |-> expenseData]
          /\ last' = [op |-> "addExpense", id |-> clock,
                      categoryId |-> expenseData.categoryId]
    /\ storage' = SaveOnChange(storage, projects', isLoading)
    /\ UNCHANGED <<selectedProject, clock, isLoading, migVars, storeVars,
                   asyncVars, aggIn>>

NextExp == CallAddExpense

SpecExp == InitExp /\ [][NextExp]_vars

Severity(warningLevel) ==
    CASE warningLevel = "green" -> 0
      [] warningLevel = "yellow" -> 1
      [] warningLevel = "red" -> 2

LevelBefore == getCategoryTotals(aggIn.category).warningLevel
LevelAfter == getCategoryTotals(projects[1].categories[1]).warningLevel

\* C29: recording an expense never worsens a category's health: for an
\* all-inclusive category and any expense with a positive amount, the
\* warningLevel after addExpense is no more severe (green < yellow < red)
\* than the warningLevel before it.
C29_ExpenseNeverWorsensHealth ==
    aggOut.fn = "addExpense" => Severity(LevelAfter) <= Severity(LevelBefore)

C29_Witness ==
    /\ aggOut.fn = "addExpense"
    /\ Len(projects[1].categories[1].expenses) = 2
    /\ LevelBefore = "red"
    /\ LevelAfter = "yellow"

\* C30: in local-storage mode a confirmed deletion of the only remaining
\* project survives a reload: the save-on-change effect writes nothing for
\* the empty list, yet db.getProjects afterwards returns an empty list, not
\* the deleted project.
C30_DeletedProjectStaysDeleted ==
    (last.op = "deleteProject" /\ last.confirmed /\ projects = <<>>) =>
       Reloaded = <<>>

C30_Witness ==
    /\ last.op = "deleteProject" /\ last.confirmed
    /\ last.owned > 0
    /\ projects = <<>>
    /\ storage.present
    /\ storage.data.projects = <<>>
    /\ Reloaded = <<>>

====
